---- MODULE Spec2Model ----
(***************************************************************************)
(* Verification model of the EduLoop repository (OscarXuHz/Stellaris).     *)
(*                                                                         *)
(*   - BedrockSession / BedrockOrchestrator                                *)
(*       src/eduloop_NextJS/core/bedrock_orchestrator.py                   *)
(*   - LoopManager        src/eduloop/core/loop_manager.py                 *)
(*   - AssessmentAgent    src/eduloop/agents/assessment_agent.py           *)
(*                        src/DEPRECATED_assessment_agent.py               *)
(*                                                                         *)
(* Text is modelled as a sequence of one-character strings, so that        *)
(* str.lower() and the substring test "kw in msg" are computed, not        *)
(* assumed.  Confidences are modelled in tenths (0.7 is 7).  Timestamps    *)
(* and generated identifiers are not modelled.                             *)
(***************************************************************************)
EXTENDS Integers, Sequences, FiniteSets, TLC

VARIABLES
    session,          \* the BedrockSession object routed by the orchestrator
    client,           \* BedrockOrchestrator._client is not None
    teaching_agent,   \* BedrockOrchestrator.teaching_agent is not None
    assessment_agent, \* BedrockOrchestrator.assessment_agent is not None
    lastCall,         \* observation of the last transition()/route() call
    translog,         \* every target passed to BedrockSession.transition so far
    calls,            \* number of calls made on the orchestrator/session
    clsIn,            \* input of _classify_intent under study
    clsOut,           \* its returned classification
    lm,               \* the LoopManager object
    lmCall,           \* observation of the last LoopManager call
    msIn,             \* input of _create_marking_scheme
    msOut,            \* its returned breakdown
    gaIn,             \* input of generate_assessment
    gaOut,            \* its outcome
    evOut,            \* outcome of evaluate_student_response on that assessment
    alIn,             \* input of _assess_level
    alOut,            \* its returned level
    jpIn,             \* input of _safe_json_parse
    jpOut,            \* its returned value
    ag,               \* the Teaching, Assessment and Orchestrator agents
    agCall,           \* observation of the last call made on them
    fq,               \* one /api/format-questions request being served
    pfIn,             \* a DSEPDFParser and the file given to parse_file
    pfOut,            \* outcome of parse_file
    pdIn,             \* a DSEPDFParser and the directory given to parse_directory
    pdOut,            \* outcome of parse_directory
    rr,               \* the DSERetriever and its ChromaDB collection
    rrCall,           \* observation of the last call made on the retriever
    lk,               \* the id-keyed stores: assessment, report and lesson histories, session registry
    lkCall,           \* observation of the last call that referenced an identifier
    rq,               \* the HTTP requests being handled, each on its own worker thread
    sh,               \* the process-wide singletons: retriever, lesson list, assessment list
    sw,               \* one call of _chunk_sliding_window: its text length and loop variables
    ig                \* the ingestion pipeline (knowledge_base/ingest.py): its position and locals

vars == <<session, client, teaching_agent, assessment_agent, lastCall,
          translog, calls, clsIn, clsOut, lm, lmCall, msIn, msOut, gaIn, gaOut,
          evOut, alIn, alOut, jpIn, jpOut, ag, agCall, fq, pfIn, pfOut, pdIn,
          pdOut, rr, rrCall,
          lk, lkCall,
          rq, sh,
          sw,
          ig>>

bedrockVars  == <<session, client, teaching_agent, assessment_agent, lastCall, translog, calls>>
classifyVars == <<clsIn, clsOut>>
loopVars     == <<lm, lmCall>>
markingVars  == <<msIn, msOut>>
genVars      == <<gaIn, gaOut, evOut>>
levelVars    == <<alIn, alOut>>
jsonVars     == <<jpIn, jpOut>>
agentVars    == <<ag, agCall>>
formatVars   == <<fq>>
parserVars   == <<pfIn, pfOut, pdIn, pdOut>>
retrieverVars == <<rr, rrCall>>
lookupVars == <<lk, lkCall>>
requestVars == <<rq, sh>>
windowVars == <<sw>>
ingestVars == <<ig>>

\* what the operations of one component leave alone: every other component
laterVars   == <<jsonVars, agentVars, formatVars, parserVars, retrieverVars, lookupVars, requestVars, windowVars, ingestVars>>
notBedrock  == <<classifyVars, loopVars, markingVars, genVars, levelVars, laterVars>>
notClassify == <<bedrockVars, loopVars, markingVars, genVars, levelVars, laterVars>>
notLoop     == <<bedrockVars, classifyVars, markingVars, genVars, levelVars, laterVars>>
notMarking  == <<bedrockVars, classifyVars, loopVars, genVars, levelVars, laterVars>>
notGen      == <<bedrockVars, classifyVars, loopVars, markingVars, levelVars, laterVars>>
notLevel    == <<bedrockVars, classifyVars, loopVars, markingVars, genVars, laterVars>>
earlierVars == <<bedrockVars, classifyVars, loopVars, markingVars, genVars, levelVars>>
notJson     == <<earlierVars, agentVars, formatVars, parserVars, retrieverVars, lookupVars, requestVars, windowVars, ingestVars>>
notAgents   == <<earlierVars, jsonVars, formatVars, parserVars, retrieverVars, lookupVars, requestVars, windowVars, ingestVars>>
notFormat   == <<earlierVars, jsonVars, agentVars, parserVars, retrieverVars, lookupVars, requestVars, windowVars, ingestVars>>
notParser   == <<earlierVars, jsonVars, agentVars, formatVars, retrieverVars, lookupVars, requestVars, windowVars, ingestVars>>
notRetriever == <<earlierVars, jsonVars, agentVars, formatVars, parserVars, lookupVars, requestVars, windowVars, ingestVars>>
notLookup == <<earlierVars, jsonVars, agentVars, formatVars, parserVars, retrieverVars, requestVars, windowVars, ingestVars>>
notRequests == <<earlierVars, jsonVars, agentVars, formatVars, parserVars, retrieverVars, lookupVars, windowVars, ingestVars>>
notWindow == <<earlierVars, jsonVars, agentVars, formatVars, parserVars, retrieverVars, lookupVars, requestVars, ingestVars>>
notIngest == <<earlierVars, jsonVars, agentVars, formatVars, parserVars, retrieverVars, lookupVars, requestVars, windowVars>>

(***************************************************************************)
(* Bounds of the model.                                                    *)
(***************************************************************************)
MaxCalls   == 2    \* calls made on one session
MaxRouteCalls == 3 \* calls made on a session that only route() touches
MaxReport  == 2    \* length of a gap list reported by the Assessment Agent
MaxFrags   == 2    \* fragments concatenated into a classified message
MaxLog     == 1    \* entries of the LoopManager interaction log
MaxMarks   == 24   \* total marks handed to _create_marking_scheme
MaxNum     == 3    \* num_questions of generate_assessment
MaxTypes   == 2    \* length of the question_types list
MaxTotal   == 10   \* marks handed to _assess_level
MaxOps     == 2    \* operations made on the MiniMax agents
MaxReq     == 7    \* items in one /api/format-questions request
MaxPieces  == 3    \* pieces of text in a file given to parse_file
MaxFiles   == 3    \* files in a directory given to parse_directory
MaxDocs    == 2    \* documents the vector store can hold
MaxRetrieverOps == 4 \* calls made on the retriever
MaxLookups == 3    \* lookups by identifier made on the histories and the registry
MaxInflight == 2   \* requests the backend handles at the same time
MaxTextLen == 1360 \* characters of a text given to _chunk_sliding_window
MaxDirFiles == 2   \* files in one folder of the data directory the pipeline reads
MaxLoose   == 1    \* loose files at the root of the data directory

(***************************************************************************)
(* Text                                                                    *)
(***************************************************************************)
Upper == <<"A","B","C","D","E","F","G","H","I","J","K","L","M",
           "N","O","P","Q","R","S","T","U","V","W","X","Y","Z">>
Lower == <<"a","b","c","d","e","f","g","h","i","j","k","l","m",
           "n","o","p","q","r","s","t","u","v","w","x","y","z">>

\* str.lower() on one character
lower_char(c) ==
    IF \E i \in 1..26 : Upper[i] = c
    THEN Lower[CHOOSE i \in 1..26 : Upper[i] = c]
    ELSE c

\* str.lower()
lower(s) == [i \in 1..Len(s) |-> lower_char(s[i])]

\* the Python test `kw in s` on strings
Contains(kw, s) ==
    \E i \in 0..(Len(s) - Len(kw)) : SubSeq(s, i + 1, i + Len(kw)) = kw

RECURSIVE Concat(_)
Concat(ss) == IF ss = <<>> THEN <<>> ELSE Head(ss) \o Concat(Tail(ss))

\* keyword lists of _fallback_classify
TeachKeywords ==
    << <<"t","e","a","c","h">>,
       <<"l","e","a","r","n">>,
       <<"e","x","p","l","a","i","n">>,
       <<"w","h","a","t"," ","i","s">>,
       <<"h","o","w"," ","t","o">>,
       <<"l","e","s","s","o","n">>,
       <<"s","h","o","w"," ","m","e">> >>

AssessKeywords ==
    << <<"t","e","s","t">>,
       <<"q","u","i","z">>,
       <<"p","r","a","c","t","i","c","e">>,
       <<"c","h","e","c","k">>,
       <<"e","v","a","l","u","a","t","e">>,
       <<"a","s","s","e","s","s">>,
       <<"a","n","s","w","e","r">> >>

\* any(kw in msg for kw in kws)
AnyKeyword(kws, msg) == \E k \in 1..Len(kws) : Contains(kws[k], msg)

NoTopic == ""
NoAdj   == "none"

\* a classification whose intent the teach keywords are tested for after
\* the assess keywords
fallback_assess_first(message) ==
    LET msg == lower(message) IN
    IF AnyKeyword(AssessKeywords, msg)
    THEN [intent |-> "assess", confidence |-> 7, reasoning |-> "keyword_match",
          topic |-> NoTopic, difficulty_adjustment |-> NoAdj]
    ELSE IF AnyKeyword(TeachKeywords, msg)
    THEN [intent |-> "teach", confidence |-> 7, reasoning |-> "keyword_match",
          topic |-> NoTopic, difficulty_adjustment |-> NoAdj]
    ELSE [intent |-> "direct", confidence |-> 5, reasoning |-> "no_keyword_match",
          topic |-> NoTopic, difficulty_adjustment |-> NoAdj]

\* a keyword classifier that sends a message without keywords to the
\* feedback loop
fallback_reviewing(message) ==
    LET msg == lower(message) IN
    IF AnyKeyword(TeachKeywords, msg)
    THEN [intent |-> "teach", confidence |-> 7, reasoning |-> "keyword_match",
          topic |-> NoTopic, difficulty_adjustment |-> NoAdj]
    ELSE IF AnyKeyword(AssessKeywords, msg)
    THEN [intent |-> "assess", confidence |-> 7, reasoning |-> "keyword_match",
          topic |-> NoTopic, difficulty_adjustment |-> NoAdj]
    ELSE [intent |-> "feedback_loop", confidence |-> 5, reasoning |-> "no_keyword_match",
          topic |-> NoTopic, difficulty_adjustment |-> NoAdj]

\* BedrockOrchestrator._fallback_classify
_fallback_classify(message) ==
    LET msg == lower(message) IN
    IF AnyKeyword(TeachKeywords, msg)
    THEN [intent |-> "teach", confidence |-> 7, reasoning |-> "keyword_match",
          topic |-> NoTopic, difficulty_adjustment |-> NoAdj]
    ELSE IF AnyKeyword(AssessKeywords, msg)
    THEN [intent |-> "assess", confidence |-> 7, reasoning |-> "keyword_match",
          topic |-> NoTopic, difficulty_adjustment |-> NoAdj]
    ELSE [intent |-> "direct", confidence |-> 5, reasoning |-> "no_keyword_match",
          topic |-> NoTopic, difficulty_adjustment |-> NoAdj]

\* What the invoke_model call of _classify_intent can do: raise, reply with
\* text that holds no classification, or reply with a parsed classification.
LLMIntents == {"teach", "assess", "feedback_loop", "direct", "smalltalk"}
LLMReplies ==
    {[kind |-> "raise", intent |-> "direct", topic |-> NoTopic, difficulty_adjustment |-> NoAdj],
     [kind |-> "unparsable", intent |-> "direct", topic |-> NoTopic, difficulty_adjustment |-> NoAdj],
     [kind |-> "parsed", intent |-> "teach", topic |-> "calculus", difficulty_adjustment |-> "harder"]}
    \cup [kind : {"parsed"}, intent : LLMIntents, topic : {NoTopic},
          difficulty_adjustment : {NoAdj}]

\* BedrockOrchestrator._classify_intent
_classify_intent(message, hasClient, llm) ==
    IF ~hasClient THEN _fallback_classify(message)
    ELSE IF llm.kind = "raise" THEN _fallback_classify(message)
    ELSE IF llm.kind = "parsed"
    THEN [intent |-> llm.intent, confidence |-> 9, reasoning |-> "llm",
          topic |-> llm.topic, difficulty_adjustment |-> llm.difficulty_adjustment]
    ELSE [intent |-> "direct", confidence |-> 3, reasoning |-> "parse_failure",
          topic |-> NoTopic, difficulty_adjustment |-> NoAdj]

(***************************************************************************)
(* BedrockSession                                                          *)
(***************************************************************************)
LoopState == {"idle", "teaching", "assessing", "reviewing", "completed"}

Gaps   == {"fractions", "surds"}
Topics == {NoTopic, "algebra"}

\* A topic string: a plain topic, or the remediation topic
\* "<current_topic> - Remediation: <gap>" built by _handle_feedback_loop.
NoGap == ""
Plain(t)          == [base |-> t, remediation |-> NoGap]
Remediation(t, g) == [base |-> t, remediation |-> g]

NoLesson == [present |-> FALSE, topic |-> Plain(NoTopic)]
NoReport == [present |-> FALSE, gaps |-> <<>>, scored |-> FALSE]

\* BedrockSession.__init__
NewSession ==
    [state             |-> "idle",
     current_topic     |-> NoTopic,
     loop_count        |-> 0,
     history           |-> <<>>,
     teaching_output   |-> NoLesson,
     assessment_report |-> NoReport,
     knowledge_gaps    |-> <<>>,
     mastery_scores    |-> {}]

\* the transition table of BedrockSession.transition
valid_transitions ==
    [s \in LoopState |->
        CASE s = "idle"      -> {"teaching"}
          [] s = "teaching"  -> {"assessing", "idle"}
          [] s = "assessing" -> {"reviewing", "idle"}
          [] s = "reviewing" -> {"teaching", "completed"}
          [] s = "completed" -> {"idle", "teaching"}]

\* whether BedrockSession.transition logs the "Invalid state transition" warning
transition_warns(s, new_state) == new_state \notin valid_transitions[s.state]

\* a transition that rejects a target outside the table
transition_enforced(s, new_state) ==
    IF transition_warns(s, new_state) THEN s
    ELSE [s EXCEPT !.state = new_state,
                   !.loop_count = IF new_state = "teaching" THEN @ + 1 ELSE @]

\* a transition that counts a loop only when teaching is entered from another state
transition_count_on_entry(s, new_state) ==
    [s EXCEPT !.state = new_state,
              !.loop_count = IF new_state = "teaching" /\ s.state # "teaching"
                             THEN @ + 1 ELSE @]

\* BedrockSession.transition
transition(s, new_state) ==
    [s EXCEPT !.state = new_state,
              !.loop_count = IF new_state = "teaching" THEN @ + 1 ELSE @]

\* BedrockSession.record_event; data keeps the intent of an intent_classified
\* event, the focus gap of a feedback_loop_triggered event and the gaps_found
\* list of an assessment_completed event
record_event(s, event_type, data) ==
    [s EXCEPT !.history = Append(@, [event |-> event_type,
                                     state |-> s.state,
                                     loop  |-> s.loop_count,
                                     data  |-> data])]

(***************************************************************************)
(* BedrockOrchestrator.route and the handlers it dispatches to.  A call is *)
(* threaded through a context: the session, the targets it passed to       *)
(* transition(), the warnings logged, the agent invocations it made and    *)
(* the reply it returns.                                                   *)
(***************************************************************************)
NoScore == -1
Score   == 40

StartCall(s) ==
    [s |-> s, path |-> <<>>, warned |-> 0, teach_calls |-> <<>>,
     assess_calls |-> 0, reply |-> "none", agent_used |-> "none"]

\* session.transition(new_state) made inside a call
Do(ctx, new_state) ==
    [ctx EXCEPT !.s      = transition(ctx.s, new_state),
                !.path   = Append(@, new_state),
                !.warned = @ + (IF transition_warns(ctx.s, new_state) THEN 1 ELSE 0)]

Reply(ctx, reply, agent) == [ctx EXCEPT !.reply = reply, !.agent_used = agent]

\* what teaching_agent.generate_lesson can do: return a lesson, raise,
\* return a value the handler cannot read at all (its .get fails before the
\* teaching_completed event is logged) or a lesson whose content blocks
\* cannot be formatted (the handler fails after the event is logged)
TeachOutcomes == {"lesson", "raise", "unusable", "unformattable"}

\* what assessment_agent.evaluate can do: raise, return a result whose
\* knowledge_gaps is a list of gaps (possibly empty, possibly repeating),
\* or return a result whose knowledge_gaps is not a list
RECURSIVE SeqsUpTo(_, _)
SeqsUpTo(S, n) ==
    IF n = 0 THEN {<<>>}
    ELSE LET shorter == SeqsUpTo(S, n - 1)
         IN shorter \cup {Append(q, x) : q \in {r \in shorter : Len(r) = n - 1}, x \in S}

GapReports == SeqsUpTo(Gaps, MaxReport)

AssessOutcomes ==
    {[kind |-> "raise", gaps |-> <<>>, score |-> NoScore],
     [kind |-> "malformed", gaps |-> <<>>, score |-> NoScore]}
    \cup [kind : {"result"}, gaps : GapReports, score : {Score}]
    \cup {[kind |-> "result", gaps |-> <<>>, score |-> NoScore]}

Range(q) == {q[i] : i \in 1..Len(q)}

\* the lists list(set(xs)) can return: every ordering of the distinct values
Orderings(S) ==
    {p \in [1..Cardinality(S) -> S] : \A i, j \in 1..Cardinality(S) : p[i] = p[j] => i = j}

\* a merge that appends the reported gaps without removing repeats
merge_gaps_append(old, gaps) == {old \o gaps}

\* list(set(session.knowledge_gaps + gaps)): the possible results
merge_gaps(old, gaps) == Orderings(Range(old \o gaps))

\* a teaching handler that undoes the move to teaching when no lesson came
\* back
invoke_teaching_rolling_back(topic, ctx, adj, tout) ==
    LET undone(c) == [c EXCEPT !.s.state = "idle", !.s.loop_count = @ - 1] IN
    IF ~teaching_agent
    THEN Reply(undone(ctx), "Teaching Agent not available.", "error")
    ELSE
      LET called == [ctx EXCEPT !.teach_calls =
                        Append(@, [topic |-> topic,
                                   difficulty_adjustment |-> adj,
                                   loop_count |-> ctx.s.loop_count,
                                   knowledge_gaps |-> ctx.s.knowledge_gaps,
                                   outcome |-> tout])]
          s1 == [called.s EXCEPT !.teaching_output = [present |-> TRUE, topic |-> topic]]
          s2 == record_event(s1, "teaching_completed", NoGap)
      IN IF tout = "lesson"
         THEN Reply([called EXCEPT !.s = s2], "lesson", "teaching")
         ELSE Reply(undone(called), "Teaching Agent error", "teaching")

\* BedrockOrchestrator._invoke_teaching
_invoke_teaching(topic, ctx, adj, tout) ==
    IF ~teaching_agent
    THEN Reply(ctx, "Teaching Agent not available.", "error")
    ELSE
      LET called == [ctx EXCEPT !.teach_calls =
                        Append(@, [topic |-> topic,
                                   difficulty_adjustment |-> adj,
                                   loop_count |-> ctx.s.loop_count,
                                   knowledge_gaps |-> ctx.s.knowledge_gaps,
                                   outcome |-> tout])]
      IN IF tout = "raise"
         THEN Reply(called, "Teaching Agent error", "teaching")
         ELSE LET s1 == [called.s EXCEPT !.teaching_output =
                                            [present |-> TRUE, topic |-> topic]]
                  s2 == record_event(s1, "teaching_completed", NoGap)
              IN IF tout = "unusable"
                 THEN Reply([called EXCEPT !.s = s1], "Teaching Agent error", "teaching")
                 ELSE IF tout = "unformattable"
                 THEN Reply([called EXCEPT !.s = s2], "Teaching Agent error", "teaching")
                 ELSE Reply([called EXCEPT !.s = s2], "lesson", "teaching")

\* an assessment handler that goes on to remediation itself when it found
\* gaps after a lesson
invoke_assessment_remediating(topic, ctx, aout, merged) ==
    IF ~assessment_agent
    THEN Reply(ctx, "Assessment Agent not available.", "error")
    ELSE
      LET called == [ctx EXCEPT !.assess_calls = @ + 1]
          s1 == [called.s EXCEPT !.assessment_report =
                                    [present |-> TRUE, gaps |-> aout.gaps,
                                     scored |-> aout.score # NoScore],
                                 !.knowledge_gaps =
                                    IF aout.gaps # <<>> THEN merged ELSE @]
          done == [called EXCEPT !.s = record_event(s1, "assessment_completed", aout.gaps)]
      IN IF aout.kind # "result"
         THEN Reply(called, "Assessment Agent error", "assessment")
         ELSE IF aout.gaps # <<>> /\ done.s.loop_count > 0
         THEN Reply(Do(Do(done, "reviewing"), "teaching"),
                    "evaluation, feedback loop announced", "assessment")
         ELSE Reply(done, "evaluation", "assessment")

\* BedrockOrchestrator._invoke_assessment; merged is the list that
\* list(set(...)) returned when gaps were reported
_invoke_assessment(topic, ctx, aout, merged) ==
    IF ~assessment_agent
    THEN Reply(ctx, "Assessment Agent not available.", "error")
    ELSE
      LET called == [ctx EXCEPT !.assess_calls = @ + 1] IN
      IF aout.kind = "raise"
      THEN Reply(called, "Assessment Agent error", "assessment")
      ELSE
        LET s1 == [called.s EXCEPT !.assessment_report =
                      [present |-> TRUE, gaps |-> aout.gaps,
                       scored |-> aout.score # NoScore]]
        IN IF aout.kind = "malformed"
           THEN Reply([called EXCEPT !.s = s1], "Assessment Agent error", "assessment")
           ELSE
             LET s2 == IF aout.gaps # <<>>
                       THEN [s1 EXCEPT !.knowledge_gaps = merged]
                       ELSE s1
                 s3 == IF aout.score # NoScore
                       THEN [s2 EXCEPT !.mastery_scores =
                               {m \in @ : m[1] # topic} \cup {<<topic, aout.score>>}]
                       ELSE s2
                 s4 == record_event(s3, "assessment_completed", aout.gaps)
             IN Reply([called EXCEPT !.s = s4],
                      IF aout.gaps # <<>> /\ s4.loop_count > 0
                      THEN "evaluation, feedback loop announced"
                      ELSE "evaluation",
                      "assessment")

\* a feedback handler that logs feedback_loop_triggered only after it has
\* gone back to teaching
handle_feedback_loop_late_event(ctx, tout) ==
    IF ctx.s.knowledge_gaps = <<>>
    THEN Reply(Do(ctx, "completed"), "No knowledge gaps detected", "orchestrator")
    ELSE
      LET gap_topic == ctx.s.knowledge_gaps[1]
          teaching  == Do(ctx, "teaching")
          logged    == [teaching EXCEPT !.s = record_event(@, "feedback_loop_triggered", gap_topic)]
      IN _invoke_teaching(Remediation(logged.s.current_topic, gap_topic),
                          logged, "easier", tout)

\* a feedback handler that takes the gap it remediates off the session
handle_feedback_loop_consuming(ctx, tout) ==
    IF ctx.s.knowledge_gaps = <<>>
    THEN Reply(Do(ctx, "completed"), "No knowledge gaps detected", "orchestrator")
    ELSE
      LET gap_topic == ctx.s.knowledge_gaps[1]
          logged    == [ctx EXCEPT !.s = record_event(@, "feedback_loop_triggered", gap_topic)]
          teaching  == Do(logged, "teaching")
          taken     == [teaching EXCEPT !.s.knowledge_gaps = Tail(@)]
      IN _invoke_teaching(Remediation(taken.s.current_topic, gap_topic),
                          taken, "easier", tout)

\* BedrockOrchestrator._handle_feedback_loop
_handle_feedback_loop(ctx, tout) ==
    IF ctx.s.knowledge_gaps = <<>>
    THEN Reply(Do(ctx, "completed"), "No knowledge gaps detected", "orchestrator")
    ELSE
      LET gap_topic == ctx.s.knowledge_gaps[1]
          logged    == [ctx EXCEPT !.s = record_event(@, "feedback_loop_triggered", gap_topic)]
          teaching  == Do(logged, "teaching")
      IN _invoke_teaching(Remediation(teaching.s.current_topic, gap_topic),
                          teaching, "easier", tout)

\* BedrockOrchestrator._direct_reply
_direct_reply(ctx, dout) ==
    IF ~client THEN Reply(ctx, "canned: ask me to teach or assess", "orchestrator")
    ELSE IF dout = "raise" THEN Reply(ctx, "canned: what would you like to learn", "orchestrator")
    ELSE Reply(ctx, "model reply", "orchestrator")

\* `a or b or c` on strings
FirstNonEmpty(a, b, c) == IF a # "" THEN a ELSE IF b # "" THEN b ELSE c

\* messages sent to route()
RouteMessages ==
    { <<"T","e","a","c","h"," ","m","e">>,
      <<"q","u","i","z">>,
      <<"h","i">> }

NoCall ==
    [op |-> "none", target |-> "idle", intent |-> "none", confidence |-> 0,
     pre |-> NewSession, path |-> <<>>, warned |-> 0, teach_calls |-> <<>>,
     assess_calls |-> 0, reply |-> "none", agent_used |-> "none"]

\* the session and the observation left by a finished call
Finish(op, target, cls, pre, ctx) ==
    /\ session'  = ctx.s
    /\ lastCall' = [op |-> op, target |-> target, intent |-> cls.intent,
                    confidence |-> cls.confidence, pre |-> pre,
                    path |-> ctx.path, warned |-> ctx.warned,
                    teach_calls |-> ctx.teach_calls,
                    assess_calls |-> ctx.assess_calls,
                    reply |-> ctx.reply, agent_used |-> ctx.agent_used]
    /\ translog' = translog \o ctx.path
    /\ calls'    = calls + 1
    /\ UNCHANGED <<client, teaching_agent, assessment_agent>>
    /\ UNCHANGED notBedrock

NoClassification == [intent |-> "none", confidence |-> 0]

\* a direct call of BedrockSession.transition(new_state)
Transition(new_state) ==
    /\ calls < MaxCalls
    /\ Finish("transition", new_state, NoClassification, session,
              Do(StartCall(session), new_state))

\* a route() that logs intent_classified only after the transition of its
\* dispatch
route_logging_after_dispatch(message, topic) ==
    \E cls \in {_classify_intent(message, client, llm) : llm \in LLMReplies} :
    LET s0   == IF topic # NoTopic
                THEN [session EXCEPT !.current_topic = topic]
                ELSE session
        inferred_topic == FirstNonEmpty(cls.topic, s0.current_topic, topic)
        Logged(ctx) == [ctx EXCEPT !.s = record_event(@, "intent_classified", cls.intent)]
        Entered(new_state) == Logged(Do(StartCall(s0), new_state))
    IN
      \/ /\ cls.intent = "teach"
         /\ \E tout \in TeachOutcomes :
              Finish("route", "idle", cls, session,
                     _invoke_teaching(Plain(inferred_topic), Entered("teaching"),
                                      cls.difficulty_adjustment, tout))
      \/ /\ cls.intent = "assess"
         /\ \E aout \in AssessOutcomes :
              \E merged \in merge_gaps(session.knowledge_gaps, aout.gaps) :
                Finish("route", "idle", cls, session,
                       _invoke_assessment(inferred_topic, Entered("assessing"),
                                          aout, merged))
      \/ /\ cls.intent = "feedback_loop"
         /\ \E tout \in TeachOutcomes :
              Finish("route", "idle", cls, session,
                     _handle_feedback_loop(Entered("reviewing"), tout))
      \/ /\ cls.intent \notin {"teach", "assess", "feedback_loop"}
         /\ \E dout \in {"reply", "raise"} :
              Finish("route", "idle", cls, session,
                     _direct_reply(Logged(StartCall(s0)), dout))

\* BedrockOrchestrator.route(message, session_id, topic, history) on the session
route(message, topic) ==
    \E cls \in {_classify_intent(message, client, llm) : llm \in LLMReplies} :
    LET s0   == IF topic # NoTopic
                THEN [session EXCEPT !.current_topic = topic]
                ELSE session
        inferred_topic == FirstNonEmpty(cls.topic, s0.current_topic, topic)
        ctx  == StartCall(record_event(s0, "intent_classified", cls.intent))
    IN
      \/ /\ cls.intent = "teach"
         /\ \E tout \in TeachOutcomes :
              Finish("route", "idle", cls, session,
                     _invoke_teaching(Plain(inferred_topic), Do(ctx, "teaching"),
                                      cls.difficulty_adjustment, tout))
      \/ /\ cls.intent = "assess"
         /\ \E aout \in AssessOutcomes :
              \E merged \in merge_gaps(session.knowledge_gaps, aout.gaps) :
                Finish("route", "idle", cls, session,
                       _invoke_assessment(inferred_topic, Do(ctx, "assessing"),
                                          aout, merged))
      \/ /\ cls.intent = "feedback_loop"
         /\ \E tout \in TeachOutcomes :
              Finish("route", "idle", cls, session,
                     _handle_feedback_loop(Do(ctx, "reviewing"), tout))
      \/ /\ cls.intent \notin {"teach", "assess", "feedback_loop"}
         /\ \E dout \in {"reply", "raise"} :
              Finish("route", "idle", cls, session, _direct_reply(ctx, dout))

\* a route() call of a session that also sees direct transition() calls
Route(message, topic) ==
    /\ calls < MaxCalls
    /\ route(message, topic)

\* a route() call of a session driven by route() alone
RouteOnly(message, topic) ==
    /\ calls < MaxRouteCalls
    /\ route(message, topic)

\* values of the variables a specification does not use
IdleBedrock ==
    /\ session = NewSession
    /\ client = FALSE
    /\ teaching_agent = FALSE
    /\ assessment_agent = FALSE
    /\ lastCall = NoCall
    /\ translog = <<>>
    /\ calls = 0

\* BedrockOrchestrator.__init__ followed by get_or_create_session
InitBedrock ==
    /\ session = NewSession
    /\ client \in BOOLEAN
    /\ teaching_agent \in BOOLEAN
    /\ assessment_agent \in BOOLEAN
    /\ lastCall = NoCall
    /\ translog = <<>>
    /\ calls = 0

(***************************************************************************)
(* _classify_intent as a function of its inputs                            *)
(***************************************************************************)
\* pieces the classified messages are put together from
Fragments ==
    << <<"T","e","a","c","h">>,
       <<"L","E","A","R","N">>,
       <<"e","x","p","l","a","i","n">>,
       <<"W","h","a","t"," ","i","s">>,
       <<"h","o","w"," ","t","o">>,
       <<"l","e","s","s","o","n">>,
       <<"s","h","o","w"," ","m","e">>,
       <<"t","e","s","t">>,
       <<"Q","u","i","z">>,
       <<"p","r","a","c","t","i","c","e">>,
       <<"c","h","e","c","k">>,
       <<"e","v","a","l","u","a","t","e">>,
       <<"a","s","s","e","s","s">>,
       <<"a","n","s","w","e","r">>,
       <<"h","i">>,
       <<" ">>,
       <<"t","e","a">>,
       <<"c","h">> >>

\* the messages: up to MaxFrags fragments, concatenated
Messages == {Concat(fs) : fs \in SeqsUpTo(Range(Fragments), MaxFrags)}

Unclassified ==
    [done |-> FALSE, intent |-> "none", confidence |-> 0, reasoning |-> "none"]

IdleClassify ==
    /\ clsIn  = [message |-> <<>>, client |-> FALSE, llm |-> CHOOSE r \in LLMReplies : r.kind = "raise"]
    /\ clsOut = Unclassified

InitClassify ==
    /\ clsIn \in [message : Messages, client : BOOLEAN, llm : LLMReplies]
    /\ clsOut = Unclassified

\* one call of _classify_intent(message, session)
Classify ==
    /\ ~clsOut.done
    /\ LET c == _classify_intent(clsIn.message, clsIn.client, clsIn.llm)
       IN clsOut' = [done |-> TRUE, intent |-> c.intent,
                     confidence |-> c.confidence, reasoning |-> c.reasoning]
    /\ UNCHANGED <<clsIn, notClassify>>

(***************************************************************************)
(* LoopManager                                                             *)
(***************************************************************************)
SessionState ==
    {"initialized", "teaching", "assessment", "analysis", "feedback", "completed"}

\* the empty dict the payload fields start with
EmptyDict == [empty |-> TRUE]

\* values of an error_analysis dict: a plain count, or a record that may
\* carry a frequency field
Count(n)     == [kind |-> "int",    n |-> n, has_frequency |-> FALSE]
Freq(n)      == [kind |-> "record", n |-> n, has_frequency |-> TRUE]
NoFrequency  == [kind |-> "record", n |-> 0, has_frequency |-> FALSE]

\* error_analysis dicts, as lists of items in insertion order
ErrorAnalyses ==
    { <<>>,
      << <<"conceptual_error", Count(2)>>, <<"calculation_error", Count(1)>> >>,
      << <<"conceptual_error", Freq(2)>> >>,
      << <<"sign", Freq(1)>>, <<"units", Freq(3)>>, <<"algebra", Freq(3)>>,
         <<"rounding", Freq(2)>> >>,
      << <<"sign", NoFrequency>>, <<"units", Freq(1)>> >>,
      << <<"sign", Freq(2)>>, <<"units", Count(1)>> >> }

\* payloads handed to the LoopManager; an absent score is NoScore
StudentData  == {[name |-> "Ann"], [name |-> "Bob"]}
TeachingData == {[summary |-> "linear equations"], [summary |-> "quadratics"]}
AssessmentData ==
    [score : {70}, knowledge_gaps : {<<"fractions", "surds">>},
     error_analysis : ErrorAnalyses]
    \cup [score : {NoScore, 85}, knowledge_gaps : {<<>>}, error_analysis : {<<>>}]
LessonRequests == [topic : {"algebra", "calculus"}, level : {"intermediate"}]
Interactions   == [agent : {"teaching_agent"}, data : {[topic |-> "Math"]}]

\* LoopManager.__init__
NewLoopManager ==
    [current_state        |-> "initialized",
     teaching_output      |-> EmptyDict,
     assessment_report    |-> EmptyDict,
     student_profile      |-> EmptyDict,
     conversation_history |-> <<>>]

\* LoopManager._generate_recommendations
_generate_recommendations(gaps) == [i \in 1..Len(gaps) |-> [review |-> gaps[i]]]

\* LoopManager._calculate_difficulty_level; assessment_data.get("score", 0)
_calculate_difficulty_level(assessment_data) ==
    LET score == IF assessment_data.score = NoScore THEN 0 ELSE assessment_data.score
    IN IF score > 80 THEN "advanced"
       ELSE IF score > 60 THEN "intermediate"
       ELSE "foundational"

\* the sort key x[1].get("frequency", 0) of _prioritize_areas; it raises
\* AttributeError on a value that is not a dict
KeyRaises(item) == item[2].kind = "int"
Key(item) == IF item[2].has_frequency THEN item[2].n ELSE 0

\* sorted(items, key=Key, reverse=True): descending and stable
RECURSIVE InsertDesc(_, _)
InsertDesc(sorted, item) ==
    IF sorted = <<>> THEN <<item>>
    ELSE IF Key(Head(sorted)) >= Key(item)
         THEN <<Head(sorted)>> \o InsertDesc(Tail(sorted), item)
         ELSE <<item>> \o sorted

RECURSIVE SortDesc(_)
SortDesc(items) ==
    IF items = <<>> THEN <<>>
    ELSE InsertDesc(SortDesc(SubSeq(items, 1, Len(items) - 1)), items[Len(items)])

Min(a, b) == IF a < b THEN a ELSE b

\* LoopManager._prioritize_areas
_prioritize_areas(error_analysis) ==
    IF \E i \in 1..Len(error_analysis) : KeyRaises(error_analysis[i])
    THEN [raised |-> TRUE, areas |-> <<>>]
    ELSE LET sorted == SortDesc(error_analysis)
         IN [raised |-> FALSE, areas |-> SubSeq(sorted, 1, Min(3, Len(sorted)))]

\* LoopManager.get_session_summary
get_session_summary(m) ==
    [final_state       |-> m.current_state,
     student_profile   |-> m.student_profile,
     teaching_output   |-> m.teaching_output,
     assessment_report |-> m.assessment_report,
     interaction_count |-> Len(m.conversation_history)]

NoLmCall == [op |-> "none", from |-> "initialized", arg |-> EmptyDict,
             raised |-> FALSE, ret |-> EmptyDict]

LmCalled(op, arg, raised, ret) ==
    /\ lmCall' = [op |-> op, from |-> lm.current_state, arg |-> arg,
                  raised |-> raised, ret |-> ret]
    /\ UNCHANGED notLoop

\* LoopManager.initialize_session
initialize_session(student_data) ==
    /\ lm' = [lm EXCEPT !.student_profile = student_data, !.current_state = "teaching"]
    /\ LmCalled("initialize_session", student_data, FALSE,
                [status |-> "initialized", state |-> "teaching"])

\* a transition_to_teaching that keeps the requested lesson as teaching output
transition_to_teaching_storing(m, request) ==
    [m EXCEPT !.current_state = "teaching", !.teaching_output = request]

\* LoopManager.transition_to_teaching: the object after the call
transition_to_teaching_update(m, request) ==
    [m EXCEPT !.current_state = "teaching"]

\* LoopManager.transition_to_teaching
transition_to_teaching(request) ==
    /\ lm' = transition_to_teaching_update(lm, request)
    /\ LmCalled("transition_to_teaching", request, FALSE,
                [state |-> "teaching", topic |-> request.topic, level |-> request.level])

\* a transition_to_assessment refused outside the teaching state
transition_to_assessment_guarded(m, teaching_data) ==
    IF m.current_state = "teaching"
    THEN [m EXCEPT !.teaching_output = teaching_data, !.current_state = "assessment"]
    ELSE m

\* LoopManager.transition_to_assessment: the object after the call
transition_to_assessment_update(m, teaching_data) ==
    [m EXCEPT !.teaching_output = teaching_data, !.current_state = "assessment"]

\* LoopManager.transition_to_assessment
transition_to_assessment(teaching_data) ==
    /\ lm' = transition_to_assessment_update(lm, teaching_data)
    /\ LmCalled("transition_to_assessment", teaching_data, FALSE,
                [state |-> "assessment", teaching_summary |-> teaching_data.summary])

\* LoopManager.transition_to_analysis
transition_to_analysis(assessment_data) ==
    /\ lm' = [lm EXCEPT !.assessment_report = assessment_data, !.current_state = "analysis"]
    /\ LmCalled("transition_to_analysis", assessment_data, FALSE,
                [state |-> "analysis",
                 student_performance |-> IF assessment_data.score = NoScore
                                         THEN 0 ELSE assessment_data.score])

\* LoopManager.process_feedback_loop: the exception of _prioritize_areas
\* leaves the method before the state is set
process_feedback_loop(assessment_data) ==
    LET focus == _prioritize_areas(assessment_data.error_analysis) IN
    IF focus.raised
    THEN /\ lm' = lm
         /\ LmCalled("process_feedback_loop", assessment_data, TRUE, EmptyDict)
    ELSE /\ lm' = [lm EXCEPT !.current_state = "feedback"]
         /\ LmCalled("process_feedback_loop", assessment_data, FALSE,
                [identified_gaps       |-> assessment_data.knowledge_gaps,
                 misunderstanding_areas |-> assessment_data.error_analysis,
                 recommended_topics    |-> _generate_recommendations(assessment_data.knowledge_gaps),
                 difficulty_adjustment |-> _calculate_difficulty_level(assessment_data),
                 focus_areas           |-> focus.areas])

\* LoopManager.log_interaction
log_interaction(interaction) ==
    /\ Len(lm.conversation_history) < MaxLog
    /\ lm' = [lm EXCEPT !.conversation_history =
                Append(@, [agent |-> interaction.agent, data |-> interaction.data,
                           session_state |-> lm.current_state])]
    /\ LmCalled("log_interaction", interaction, FALSE, EmptyDict)

IdleLoop == lm = NewLoopManager /\ lmCall = NoLmCall
InitLoop == lm = NewLoopManager /\ lmCall = NoLmCall

(***************************************************************************)
(* AssessmentAgent: marking schemes and assessment generation              *)
(***************************************************************************)
QuestionDifficulty == {"foundational", "intermediate", "advanced"}

\* question types handed to the agent; "essay" stands for any other string
QuestionTypes == {"mcq", "short_answer", "long_answer", "essay"}

\* a long-answer split that gives every part a third
marking_scheme_even_thirds(question_type, total_marks) ==
    IF question_type = "mcq"
    THEN [correct_answer |-> total_marks]
    ELSE IF question_type = "short_answer"
    THEN [correct_working |-> total_marks \div 2,
          correct_answer  |-> total_marks - total_marks \div 2]
    ELSE [understanding |-> total_marks \div 3,
          working       |-> total_marks \div 3,
          final_answer  |-> total_marks \div 3]

\* AssessmentAgent._create_marking_scheme
_create_marking_scheme(question_type, total_marks) ==
    IF question_type = "mcq"
    THEN [correct_answer |-> total_marks]
    ELSE IF question_type = "short_answer"
    THEN [correct_working |-> total_marks \div 2,
          correct_answer  |-> total_marks - total_marks \div 2]
    ELSE [understanding |-> total_marks \div 3,
          working       |-> total_marks \div 3,
          final_answer  |-> total_marks - 2 * (total_marks \div 3)]

NoScheme == [unset |-> 0]

IdleMarking ==
    /\ msIn  = [question_type |-> "mcq", total_marks |-> 0]
    /\ msOut = [done |-> FALSE, scheme |-> NoScheme]

InitMarking ==
    /\ msIn \in [question_type : QuestionTypes, total_marks : 0..MaxMarks]
    /\ msOut = [done |-> FALSE, scheme |-> NoScheme]

\* one call of _create_marking_scheme(question_type, total_marks)
CreateMarkingScheme ==
    /\ ~msOut.done
    /\ msOut' = [done |-> TRUE,
                 scheme |-> _create_marking_scheme(msIn.question_type, msIn.total_marks)]
    /\ UNCHANGED <<msIn, notMarking>>

\* AssessmentAgent._generate_single_question (rule-based generation)
_generate_single_question(difficulty, question_type, question_num) ==
    LET marks == IF question_type = "mcq" THEN 1
                 ELSE IF question_type = "short_answer"
                 THEN (IF difficulty = "foundational" THEN 4 ELSE 6)
                 ELSE (IF difficulty = "advanced" THEN 8 ELSE 6)
    IN [id             |-> question_num,
        difficulty     |-> difficulty,
        question_type  |-> question_type,
        correct_answer |-> "Sample correct answer",
        marking_scheme |-> _create_marking_scheme(question_type, marks),
        dse_paper      |-> IF question_num % 2 = 1 THEN "Paper 1" ELSE "Paper 2",
        marks_total    |-> marks]

\* the question_types argument: None, or a list
NotGiven    == [given |-> FALSE, list |-> <<>>]
Given(list) == [given |-> TRUE, list |-> list]

\* the loop `for i in range(num_questions)` of the rule-based
\* generate_assessment, from iteration i on; i % len(question_types)
\* raises ZeroDivisionError on an empty list
RECURSIVE rule_loop(_, _, _, _, _, _)
rule_loop(i, num_questions, difficulty, question_types, questions, total_marks) ==
    IF i >= num_questions
    THEN [raised |-> FALSE, questions |-> questions, total_marks |-> total_marks]
    ELSE IF Len(question_types) = 0
    THEN [raised |-> TRUE, questions |-> <<>>, total_marks |-> 0]
    ELSE LET question == _generate_single_question(
                             difficulty, question_types[(i % Len(question_types)) + 1], i + 1)
         IN rule_loop(i + 1, num_questions, difficulty, question_types,
                      Append(questions, question), total_marks + question.marks_total)

\* AssessmentAgent.generate_assessment(topic, num_questions, difficulty, question_types)
generate_assessment_rule(num_questions, difficulty, question_types) ==
    LET types == IF question_types.given THEN question_types.list
                 ELSE <<"short_answer", "long_answer">>
        out   == rule_loop(0, num_questions, difficulty, types, <<>>, 0)
    IN [done |-> TRUE, raised |-> out.raised, questions |-> out.questions,
        total_marks |-> out.total_marks,
        minutes |-> IF num_questions <= 3 THEN 20 ELSE 30]

\* What one _generate_question call meets: the type random.choice picks and
\* the text _call_minimax_llm returns - text that is no JSON (an empty reply
\* included), a JSON object without question_text, a JSON value that is no
\* object, or a question with or without a marks field
NoMarks == -1
QuestionDraws ==
    [qtype : {"mcq", "short_answer", "long_answer"},
     reply : {"unparsable", "no_text", "nonobject"}, marks : {NoMarks}]
    \cup [qtype : {"mcq", "short_answer", "long_answer"},
          reply : {"question"}, marks : {NoMarks, 0, 3}]

\* AssessmentAgent._generate_question (lesson-based generation); calling
\* .get on a JSON value that is no object raises AttributeError
_generate_question(draw) ==
    IF draw.reply = "nonobject"
    THEN [raised |-> TRUE, source |-> "none", type |-> draw.qtype, marks |-> NoMarks]
    ELSE IF draw.reply = "question"
    THEN [raised |-> FALSE, source |-> "llm", type |-> draw.qtype, marks |-> draw.marks]
    ELSE [raised |-> FALSE, source |-> "placeholder", type |-> draw.qtype,
          marks |-> IF draw.qtype = "mcq" THEN 1 ELSE 5]

\* question.get("marks", 0)
MarksOf(question) == IF question.marks = NoMarks THEN 0 ELSE question.marks

\* the loop `for idx in range(num_questions)` of the lesson-based generate_assessment
RECURSIVE lesson_loop(_, _, _, _, _)
lesson_loop(idx, num_questions, draws, questions, total_marks) ==
    IF idx >= num_questions
    THEN [raised |-> FALSE, questions |-> questions, total_marks |-> total_marks]
    ELSE LET question == _generate_question(draws[idx + 1])
         IN IF question.raised
            THEN [raised |-> TRUE, questions |-> <<>>, total_marks |-> 0]
            ELSE lesson_loop(idx + 1, num_questions, draws,
                             Append(questions, question), total_marks + MarksOf(question))

\* AssessmentAgent.generate_assessment(lesson, num_questions)
generate_assessment_lesson(num_questions, draws) ==
    LET out == lesson_loop(0, num_questions, draws, <<>>, 0)
    IN [done |-> TRUE, raised |-> out.raised, questions |-> out.questions,
        total_marks |-> out.total_marks, minutes |-> num_questions * 2]

NotGenerated ==
    [done |-> FALSE, raised |-> FALSE, questions |-> <<>>, total_marks |-> 0, minutes |-> 0]

\* sequences over S of length exactly n
SeqsOfLen(S, n) == {q \in SeqsUpTo(S, n) : Len(q) = n}

RuleInputs ==
    [variant : {"rule"}, num_questions : 0..MaxNum, difficulty : QuestionDifficulty,
     question_types : {NotGiven} \cup {Given(l) : l \in SeqsUpTo(QuestionTypes, MaxTypes)},
     draws : {<<>>}]

LessonInputs ==
    UNION {[variant : {"lesson"}, num_questions : {n}, difficulty : {"foundational"},
            question_types : {NotGiven}, draws : SeqsOfLen(QuestionDraws, n)]
           : n \in 0..MaxNum}

\* a percentage obtained/total*100, kept as the exact fraction num/den
Fraction(num, den) == [num |-> num, den |-> den]
AtLeast(percentage, bound) == percentage.num >= bound * percentage.den

\* an answer text of n characters
AnswerOfLen(n) == [i \in 1..n |-> "x"]
Answers == {AnswerOfLen(0), AnswerOfLen(20), AnswerOfLen(21)}

Min2(a, b) == IF a <= b THEN a ELSE b

\* AssessmentAgent._calculate_score (rule-based generation)
_calculate_score(student_answer, question_type) ==
    LET score == IF Len(student_answer) > 20 THEN 3 ELSE 1
        marks_total == IF question_type = "short_answer" THEN 4 ELSE 6
    IN [marks_obtained |-> Min2(score, marks_total), marks_total |-> marks_total]

\* AssessmentAgent.evaluate_student_response(question_id, student_answer,
\* question_type) of the rule-based generation
evaluate_student_response_rule(question_id, student_answer, question_type) ==
    LET score == _calculate_score(student_answer, question_type)
    IN [done |-> TRUE, raised |-> FALSE, question_id |-> question_id,
        marks_obtained |-> score.marks_obtained,
        marks_total    |-> score.marks_total,
        percentage     |-> Fraction(score.marks_obtained * 100, score.marks_total),
        dse_level      |-> "none"]

\* utils.helpers.calculate_percentage
calculate_percentage(obtained, total) ==
    IF total = 0 THEN Fraction(0, 1) ELSE Fraction(obtained * 100, total)

\* utils.helpers.get_dse_level
get_dse_level(percentage) ==
    IF AtLeast(percentage, 90) THEN "Level 5**"
    ELSE IF AtLeast(percentage, 80) THEN "Level 5*"
    ELSE IF AtLeast(percentage, 70) THEN "Level 5"
    ELSE IF AtLeast(percentage, 60) THEN "Level 4"
    ELSE IF AtLeast(percentage, 50) THEN "Level 3"
    ELSE IF AtLeast(percentage, 40) THEN "Level 2"
    ELSE "Level 1"

\* What grading one open-ended answer meets: _call_minimax_llm returns ""
\* (no key, or the request failed) and the heuristic looks for the lesson's
\* topic in the answer, or the LLM replies with a score
GradeReplies == {"heuristic_miss", "heuristic_hit", "llm_full", "llm_zero"}

\* AssessmentAgent._score_question on the question's own correct_answer
_score_question(question, grade) ==
    IF question.type = "mcq" \/ grade \in {"heuristic_hit", "llm_full"}
    THEN [score |-> MarksOf(question), is_correct |-> TRUE]
    ELSE [score |-> 0, is_correct |-> FALSE]

\* the loop `for ans in student_answers` of the lesson-based
\* evaluate_student_response; every answer is the question's correct_answer
RECURSIVE score_loop(_, _, _, _)
score_loop(questions, grade, scored, total_score) ==
    IF questions = <<>>
    THEN [scored |-> scored, total_score |-> total_score]
    ELSE LET r == _score_question(Head(questions), grade)
         IN score_loop(Tail(questions), grade,
                       Append(scored, [score |-> r.score, marks |-> Head(questions).marks]),
                       total_score + r.score)

\* the strengths comprehension of generate_diagnostic_report reads q["topic"]
\* of every scored entry with score >= 0.8 * marks; the scored entries carry
\* no topic (KeyError), and marks is None when the question has none (TypeError)
strengths_raises(scored) ==
    \E i \in 1..Len(scored) :
        \/ scored[i].marks = NoMarks
        \/ 10 * scored[i].score >= 8 * scored[i].marks

\* AssessmentAgent.evaluate_student_response(assessment_id, student_answers)
\* of the lesson-based generation
evaluate_student_response_lesson(assessment, grade) ==
    LET out        == score_loop(assessment.questions, grade, <<>>, 0)
        percentage == calculate_percentage(out.total_score, assessment.total_marks)
    IN [done |-> TRUE, raised |-> strengths_raises(out.scored), question_id |-> 0,
        marks_obtained |-> out.total_score,
        marks_total    |-> assessment.total_marks,
        percentage     |-> percentage,
        dse_level      |-> get_dse_level(percentage)]

NotEvaluated ==
    [done |-> FALSE, raised |-> FALSE, question_id |-> 0, marks_obtained |-> 0,
     marks_total |-> 0, percentage |-> Fraction(0, 1), dse_level |-> "none"]

IdleGen ==
    /\ gaIn  = [variant |-> "rule", num_questions |-> 0, difficulty |-> "foundational",
                question_types |-> NotGiven, draws |-> <<>>]
    /\ gaOut = NotGenerated
    /\ evOut = NotEvaluated

InitGen ==
    /\ gaIn \in RuleInputs \cup LessonInputs
    /\ gaOut = NotGenerated
    /\ evOut = NotEvaluated

\* one call of the rule-based generate_assessment
GenerateRuleBased ==
    /\ ~gaOut.done
    /\ gaIn.variant = "rule"
    /\ gaOut' = generate_assessment_rule(gaIn.num_questions, gaIn.difficulty,
                                         gaIn.question_types)
    /\ UNCHANGED <<gaIn, evOut, notGen>>

\* one call of the lesson-based generate_assessment
GenerateFromLesson ==
    /\ ~gaOut.done
    /\ gaIn.variant = "lesson"
    /\ gaOut' = generate_assessment_lesson(gaIn.num_questions, gaIn.draws)
    /\ UNCHANGED <<gaIn, evOut, notGen>>

\* one call of the rule-based evaluate_student_response, on the id and type
\* of a question of the generated assessment
EvaluateRuleBased(i, student_answer) ==
    /\ gaOut.done /\ ~gaOut.raised /\ ~evOut.done
    /\ gaIn.variant = "rule"
    /\ i \in 1..Len(gaOut.questions)
    /\ evOut' = evaluate_student_response_rule(gaOut.questions[i].id, student_answer,
                                               gaOut.questions[i].question_type)
    /\ UNCHANGED <<gaIn, gaOut, notGen>>

\* one call of the lesson-based evaluate_student_response, submitting every
\* question's correct_answer
EvaluateLesson(grade) ==
    /\ gaOut.done /\ ~gaOut.raised /\ ~evOut.done
    /\ gaIn.variant = "lesson"
    /\ evOut' = evaluate_student_response_lesson(gaOut, grade)
    /\ UNCHANGED <<gaIn, gaOut, notGen>>

(***************************************************************************)
(* Specifications                                                          *)
(***************************************************************************)
(***************************************************************************)
(* AssessmentAgent._assess_level                                           *)
(***************************************************************************)
Above(percentage, bound) == percentage.num > bound * percentage.den

\* a ladder whose lower bounds are exclusive
assess_level_exclusive(marks_obtained, marks_total) ==
    IF marks_total = 0 THEN "Not assessed"
    ELSE LET percentage == Fraction(marks_obtained * 100, marks_total)
         IN IF Above(percentage, 90) THEN "Level 5**"
            ELSE IF Above(percentage, 80) THEN "Level 5*"
            ELSE IF Above(percentage, 70) THEN "Level 5"
            ELSE IF Above(percentage, 60) THEN "Level 4"
            ELSE IF Above(percentage, 50) THEN "Level 3"
            ELSE "Below Level 3"

\* AssessmentAgent._assess_level
_assess_level(marks_obtained, marks_total) ==
    IF marks_total = 0 THEN "Not assessed"
    ELSE LET percentage == Fraction(marks_obtained * 100, marks_total)
         IN IF AtLeast(percentage, 90) THEN "Level 5**"
            ELSE IF AtLeast(percentage, 80) THEN "Level 5*"
            ELSE IF AtLeast(percentage, 70) THEN "Level 5"
            ELSE IF AtLeast(percentage, 60) THEN "Level 4"
            ELSE IF AtLeast(percentage, 50) THEN "Level 3"
            ELSE "Below Level 3"

NoLevel == "none"

IdleLevel ==
    /\ alIn  = [marks_obtained |-> 0, marks_total |-> 0]
    /\ alOut = NoLevel

InitLevel ==
    /\ alIn \in [marks_obtained : 0..MaxTotal, marks_total : 0..MaxTotal]
    /\ alOut = NoLevel

\* one call of _assess_level
AssessLevel ==
    /\ alOut = NoLevel
    /\ alOut' = _assess_level(alIn.marks_obtained, alIn.marks_total)
    /\ UNCHANGED <<alIn, notLevel>>

(***************************************************************************)
(* _safe_json_parse                                                        *)
(*                                                                         *)
(* json.loads is modelled on the texts that can be written with the        *)
(* characters { } " : 1 a j s o n x, backtick, blank and newline: the       *)
(* JSON values over these are the numbers 1, 11, ..., the strings and the  *)
(* objects with at most one member.                                        *)
(***************************************************************************)
Whitespace == {" ", "\n"}

\* str.strip()
RECURSIVE lstrip(_)
lstrip(s) == IF s # <<>> /\ Head(s) \in Whitespace THEN lstrip(Tail(s)) ELSE s
RECURSIVE rstrip(_)
rstrip(s) ==
    IF s # <<>> /\ s[Len(s)] \in Whitespace THEN rstrip(SubSeq(s, 1, Len(s) - 1)) ELSE s
strip(s) == rstrip(lstrip(s))

startswith(s, p) == Len(s) >= Len(p) /\ SubSeq(s, 1, Len(p)) = p
endswith(s, p)   == Len(s) >= Len(p) /\ SubSeq(s, Len(s) - Len(p) + 1, Len(s)) = p

\* str.find and str.rfind of one character, as 0-based indexes, -1 if absent
find(s, c) ==
    IF \E i \in 1..Len(s) : s[i] = c
    THEN (CHOOSE i \in 1..Len(s) : s[i] = c /\ \A j \in 1..(i - 1) : s[j] # c) - 1
    ELSE -1
rfind(s, c) ==
    IF \E i \in 1..Len(s) : s[i] = c
    THEN (CHOOSE i \in 1..Len(s) : s[i] = c /\ \A j \in (i + 1)..Len(s) : s[j] # c) - 1
    ELSE -1

\* the slice s[from:] with a 0-based index
SliceFrom(s, from) == SubSeq(s, from + 1, Len(s))

\* the first position at or after i (1-based) that holds no whitespace
RECURSIVE SkipWs(_, _)
SkipWs(s, i) == IF i <= Len(s) /\ s[i] \in Whitespace THEN SkipWs(s, i + 1) ELSE i

\* the first position at or after i that does not hold the digit 1
RECURSIVE SkipOnes(_, _)
SkipOnes(s, i) == IF i <= Len(s) /\ s[i] = "1" THEN SkipOnes(s, i + 1) ELSE i

NoValue == [kind |-> "none", digits |-> 0, chars |-> <<>>, members |-> <<>>]
Failed  == [ok |-> FALSE, value |-> NoValue, next |-> 0]
Parsed(value, next) == [ok |-> TRUE, value |-> value, next |-> next]
Number(digits)  == [kind |-> "number", digits |-> digits, chars |-> <<>>, members |-> <<>>]
String(chars)   == [kind |-> "string", digits |-> 0, chars |-> chars, members |-> <<>>]
Object(members) == [kind |-> "object", digits |-> 0, chars |-> <<>>, members |-> members]

\* json.decoder scanstring from the opening quote at position i: up to the
\* next quote; a control character inside a string is an error
ScanString(s, i) ==
    IF \E j \in (i + 1)..Len(s) : s[j] = "\""
    THEN LET j == CHOOSE j \in (i + 1)..Len(s) :
                      s[j] = "\"" /\ \A k \in (i + 1)..(j - 1) : s[k] # "\""
         IN IF \E k \in (i + 1)..(j - 1) : s[k] = "\n"
            THEN Failed
            ELSE Parsed(String(SubSeq(s, i + 1, j - 1)), j + 1)
    ELSE Failed

\* json.scanner scan_once at position i
RECURSIVE ScanOnce(_, _)
ScanOnce(s, i) ==
    IF i > Len(s) THEN Failed
    ELSE IF s[i] = "1" THEN Parsed(Number(SkipOnes(s, i) - i), SkipOnes(s, i))
    ELSE IF s[i] = "\"" THEN ScanString(s, i)
    ELSE IF s[i] = "{"
    THEN LET k == SkipWs(s, i + 1) IN
         IF k > Len(s) THEN Failed
         ELSE IF s[k] = "}" THEN Parsed(Object(<<>>), k + 1)
         ELSE IF s[k] # "\"" THEN Failed
         ELSE LET key == ScanString(s, k) IN
              IF ~key.ok THEN Failed
              ELSE LET colon == SkipWs(s, key.next) IN
                   IF colon > Len(s) \/ s[colon] # ":" THEN Failed
                   ELSE LET member == ScanOnce(s, SkipWs(s, colon + 1)) IN
                        IF ~member.ok THEN Failed
                        ELSE LET close == SkipWs(s, member.next) IN
                             IF close > Len(s) \/ s[close] # "}" THEN Failed
                             ELSE Parsed(Object(<< <<key.value.chars, member.value>> >>),
                                         close + 1)
    ELSE Failed

\* json.loads: one value between optional whitespace, and nothing else
json_loads(s) ==
    LET r == ScanOnce(s, SkipWs(s, 1)) IN
    IF r.ok /\ SkipWs(s, r.next) > Len(s) THEN r ELSE Failed

\* the backtick character, which a TLA+ string cannot hold
Backtick == "backtick"
Fence == <<Backtick, Backtick, Backtick>>

\* the fence stripping of _safe_json_parse
strip_fences(text) ==
    LET t1 == strip(text)
        first_nl == IF find(t1, "\n") # -1 THEN find(t1, "\n") ELSE 3
        t2 == IF startswith(t1, Fence) THEN SliceFrom(t1, first_nl + 1) ELSE t1
        t3 == IF endswith(t2, Fence) THEN SubSeq(t2, 1, Len(t2) - 3) ELSE t2
    IN strip(t3)

\* _safe_json_parse: the parsed value, or NoValue for None
_safe_json_parse(text) ==
    LET t == strip_fences(text)
        whole == json_loads(t)
        start == find(t, "{")
        end   == rfind(t, "}")
    IN IF whole.ok THEN whole.value
       ELSE IF start # -1 /\ end # -1 /\ end > start
       THEN json_loads(SubSeq(t, start + 1, end + 1)).value
       ELSE NoValue

\* the texts parsed: a body between a prefix and a suffix
Bodies ==
    { <<"{", "\"", "a", "\"", ":", "1", "}">>,
      <<"{", "}">>,
      <<"{", "\"", "a", "\"", ":", " ", "{", "}", "}">>,
      <<"{", "\"", "a", "\"", ":", "\n", "1", "1", "}">>,
      <<"1">>, <<"\"", "a", "\"">>, <<"x">>, <<>>,
      <<"}", "{">>, <<"{", "\"", "a", "\"">>, <<"n", "o", " ", "j", "s", "o", "n">> }
OpeningFences ==
    { Fence, Fence \o <<"\n">>,
      Fence \o <<"j", "s", "o", "n">>, Fence \o <<"j", "s", "o", "n", "\n">> }
ClosingFences == { Fence, <<"\n">> \o Fence }
Prefixes == OpeningFences \cup { <<>>, <<"x", " ">> }
Suffixes == ClosingFences \cup { <<>>, <<" ", "x">> }

TextOf(in) == in.prefix \o in.body \o in.suffix

NotParsed == [done |-> FALSE, value |-> NoValue]

IdleJson ==
    /\ jpIn  = [prefix |-> <<>>, body |-> <<>>, suffix |-> <<>>]
    /\ jpOut = NotParsed

InitJson ==
    /\ jpIn \in [prefix : Prefixes, body : Bodies, suffix : Suffixes]
    /\ jpOut = NotParsed

\* one call of _safe_json_parse
SafeJsonParse ==
    /\ ~jpOut.done
    /\ jpOut' = [done |-> TRUE, value |-> _safe_json_parse(TextOf(jpIn))]
    /\ UNCHANGED <<jpIn, notJson>>

(***************************************************************************)
(* TeachingAgent, AssessmentAgent and OrchestratorAgent (MiniMax)          *)
(*                                                                         *)
(* ag holds, for each agent, whether its _client exists (an API key was    *)
(* given), the two histories, and the number of messages.create calls made *)
(* on each client.  The RAG retrieval and the texts of prompts and lessons *)
(* are not modelled: _retrieve catches every exception and returns [].     *)
(***************************************************************************)
\* what messages.create does for _call_llm: raise AuthenticationError, raise
\* something else, reply with text that parses to a non-empty JSON object,
\* or reply with any other text
CallOutcomes == {"raise_auth", "raise", "parsed", "text"}

NoKeyResponse(agent) == [status |-> "error", error |-> "no_api_key", from |-> agent]

\* TeachingAgent._call_llm / AssessmentAgent._call_llm
_call_llm(agent, hasClient, outcome) ==
    IF ~hasClient THEN NoKeyResponse(agent)
    ELSE IF outcome = "raise_auth"
    THEN [status |-> "error", error |-> "invalid_api_key", from |-> agent]
    ELSE IF outcome = "raise"
    THEN [status |-> "error", error |-> "llm_call_failed", from |-> agent]
    ELSE IF outcome = "parsed"
    THEN [status |-> "success", error |-> "none", from |-> "llm"]
    ELSE [status |-> "success", error |-> "none", from |-> "raw"]

\* a generate_lesson that keeps no record of a lesson whose LLM call failed
lesson_history_success_only(a, outcome) ==
    LET lesson == [llm_response |-> _call_llm("teaching", a.teaching_client, outcome)]
    IN [agents |-> [a EXCEPT
            !.session_lessons =
                IF lesson.llm_response.status = "error" THEN @ ELSE Append(@, lesson),
            !.teaching_calls = IF a.teaching_client THEN @ + 1 ELSE @],
        ret |-> lesson]

\* TeachingAgent.generate_lesson: the agents afterwards and the lesson returned
generate_lesson_update(a, outcome) ==
    LET lesson == [llm_response |-> _call_llm("teaching", a.teaching_client, outcome)]
    IN [agents |-> [a EXCEPT
            !.session_lessons = Append(@, lesson),
            !.teaching_calls = IF a.teaching_client THEN @ + 1 ELSE @],
        ret |-> lesson]

\* AssessmentAgent.evaluate: the agents afterwards and the result returned
evaluate_update(a, outcome) ==
    LET result == [llm_response |-> _call_llm("assessment", a.assessment_client, outcome)]
    IN [agents |-> [a EXCEPT
            !.assessment_history = Append(@, result),
            !.assessment_calls = IF a.assessment_client THEN @ + 1 ELSE @],
        ret |-> result]

\* reply texts of a decision; a decision may carry no reply key at all
Missing == "<missing>"
ReplyTexts == {Missing, "", "Hello!"}
FallbackReply == "I'm here to help with HKDSE Mathematics! Ask me anything."
NoKeyReply == "No MiniMax API key configured. Set MINIMAX_API_KEY in your .env file."

\* What messages.create does for _decide: raise, reply with a JSON object
\* that has an action key, or reply with other text (empty text included).
\* answer tells whether assess_data carries a non-empty student_answer.
DecideOutcomes ==
    [kind : {"raise"}, action : {"direct"}, reply : {"Sorry, I encountered an error"},
     answer : {FALSE}]
    \cup [kind : {"text"}, action : {"direct"}, reply : {"", "Hello!"}, answer : {FALSE}]
    \cup [kind : {"parsed"}, action : {"direct", "smalltalk"}, reply : ReplyTexts,
          answer : {FALSE}]
    \cup [kind : {"parsed"}, action : {"teach"}, reply : {""}, answer : {FALSE}]
    \cup [kind : {"parsed"}, action : {"assess"}, reply : {""}, answer : BOOLEAN]

\* OrchestratorAgent._decide
_decide(outcome) == [action |-> outcome.action, reply |-> outcome.reply,
                     answer |-> outcome.answer]

\* dict.get("reply", default)
get_reply(decision, default) == IF decision.reply = Missing THEN default ELSE decision.reply

\* the direct branch of OrchestratorAgent.chat
direct_reply(decision) == get_reply(decision, FallbackReply)

NewAgents(teaching_key, assessment_key, orchestrator_key) ==
    [teaching_client |-> teaching_key, assessment_client |-> assessment_key,
     orchestrator_client |-> orchestrator_key,
     session_lessons |-> <<>>, assessment_history |-> <<>>,
     teaching_calls |-> 0, assessment_calls |-> 0, orchestrator_calls |-> 0,
     ops |-> 0]

NoAgentCall ==
    [op |-> "none", pre |-> NewAgents(FALSE, FALSE, FALSE),
     decision |-> [action |-> "none", reply |-> Missing, answer |-> FALSE],
     invoked |-> {}, ret |-> [reply |-> Missing, agent_used |-> "none"]]

AgentCalled(op, decision, invoked, ret) ==
    agCall' = [op |-> op, pre |-> ag, decision |-> decision, invoked |-> invoked, ret |-> ret]

\* one more operation was made on the agents
Counted(a) == [a EXCEPT !.ops = @ + 1]

\* TeachingAgent.generate_lesson(topic, level, student_profile); without a
\* client no model call is made, and one outcome stands for all
generate_lesson(outcome) ==
    /\ ag.ops < MaxOps
    /\ ag.teaching_client \/ outcome = "raise"
    /\ LET out == generate_lesson_update(ag, outcome)
       IN /\ ag' = Counted(out.agents)
          /\ AgentCalled("generate_lesson", NoAgentCall.decision, {}, out.ret)
    /\ UNCHANGED notAgents

\* AssessmentAgent.evaluate(topic, question_text, student_answer, difficulty)
evaluate(outcome) ==
    /\ ag.ops < MaxOps
    /\ ag.assessment_client \/ outcome = "raise"
    /\ LET out == evaluate_update(ag, outcome)
       IN /\ ag' = Counted(out.agents)
          /\ AgentCalled("evaluate", NoAgentCall.decision, {}, out.ret)
    /\ UNCHANGED notAgents

\* OrchestratorAgent.chat(message, topic, history) without a client
ChatNoKey ==
    /\ ~ag.orchestrator_client /\ ag.ops < MaxOps
    /\ ag' = Counted(ag)
    /\ AgentCalled("chat", NoAgentCall.decision, {},
                   [reply |-> NoKeyReply, agent_used |-> "error"])
    /\ UNCHANGED notAgents

\* OrchestratorAgent.chat: the decision is direct, or any action other than
\* teach and assess
ChatDirect(decided) ==
    /\ ag.orchestrator_client /\ ag.ops < MaxOps
    /\ decided.action \notin {"teach", "assess"}
    /\ ag' = Counted([ag EXCEPT !.orchestrator_calls = @ + 1])
    /\ AgentCalled("chat", _decide(decided), {},
                   [reply |-> direct_reply(_decide(decided)), agent_used |-> "orchestrator"])
    /\ UNCHANGED notAgents

\* OrchestratorAgent.chat: the decision is teach (_handle_teach)
ChatTeach(decided, outcome) ==
    /\ ag.orchestrator_client /\ ag.ops < MaxOps
    /\ decided.action = "teach"
    /\ ag.teaching_client \/ outcome = "raise"
    /\ LET out == generate_lesson_update(ag, outcome)
       IN /\ ag' = Counted([out.agents EXCEPT !.orchestrator_calls = @ + 1])
          /\ AgentCalled("chat", _decide(decided), {"teaching"},
                         [reply |-> "lesson", agent_used |-> "teaching"])
    /\ UNCHANGED notAgents

\* OrchestratorAgent.chat: the decision is assess (_handle_assess)
ChatAssess(decided, outcome) ==
    /\ ag.orchestrator_client /\ ag.ops < MaxOps
    /\ decided.action = "assess"
    /\ ag.assessment_client \/ outcome = "raise"
    /\ IF ~decided.answer
       THEN /\ outcome = "raise"
            /\ ag' = Counted([ag EXCEPT !.orchestrator_calls = @ + 1])
            /\ AgentCalled("chat", _decide(decided), {},
                           [reply |-> "no_answer_found", agent_used |-> "orchestrator"])
       ELSE LET out == evaluate_update(ag, outcome)
            IN /\ ag' = Counted([out.agents EXCEPT !.orchestrator_calls = @ + 1])
               /\ AgentCalled("chat", _decide(decided), {"assessment"},
                              [reply |-> "evaluation", agent_used |-> "assessment"])
    /\ UNCHANGED notAgents

IdleAgents == ag = NewAgents(FALSE, FALSE, FALSE) /\ agCall = NoAgentCall

InitAgents ==
    /\ \E t \in BOOLEAN, a \in BOOLEAN, o \in BOOLEAN : ag = NewAgents(t, a, o)
    /\ agCall = NoAgentCall

(***************************************************************************)
(* POST /api/format-questions (backend/main.py)                            *)
(*                                                                         *)
(* fq is one request being served.  A raw text is a number: 0 is a text    *)
(* of white space only, every other number a different question text.      *)
(* Each submitted call of _fmt is a future that is pending in the pool's   *)
(* queue, running on a worker thread, done, or collected by the            *)
(* as_completed loop of the request thread.                                *)
(***************************************************************************)
\* ThreadPoolExecutor(max_workers=min(len(requests), 6))
PoolLimit == 6

\* the request bodies: n different texts, the first one blank, or n times
\* the same text
RequestLists ==
    UNION {{[i \in 1..n |-> i - 1], [i \in 1..n |-> 1]} : n \in 0..MaxReq}

\* what messages.create does for format_question_latex
FormatOutcomes == {"raise", "empty", "cleaned"}

\* no text at all
NoText == -1

Str(value) == [type |-> "str", value |-> value]

\* TeachingAgent.format_question_latex: always a string, the raw text when
\* there is no client, the text is blank, the call raises or the reply is
\* empty
format_question_latex(hasClient, raw_text, outcome) ==
    IF ~hasClient \/ raw_text = 0
    THEN Str(raw_text)
    ELSE IF outcome = "cleaned" THEN Str(<<"cleaned", raw_text>>)
                                ELSE Str(raw_text)

\* format_questions._fmt: result["question"] on a str raises TypeError,
\* which the except branch turns into the raw text
_fmt(hasClient, raw_text, outcome) ==
    LET result == format_question_latex(hasClient, raw_text, outcome)
    IN IF result.type = "dict"
       THEN [raised |-> FALSE, original |-> raw_text,
             formatted |-> result.question, answer |-> result.answer]
       ELSE [raised |-> FALSE, original |-> raw_text,
             formatted |-> raw_text, answer |-> ""]

\* results: list[dict | None] = [None] * len(requests)
NoResult ==
    [raised |-> FALSE, original |-> NoText, formatted |-> NoText,
     answer |-> "<None>"]

NoRequest ==
    [phase |-> "idle", client |-> FALSE, requests |-> <<>>, max_workers |-> 0,
     future |-> <<>>, value |-> <<>>, results |-> <<>>, response |-> <<>>]

Received(hasClient, requests) ==
    [NoRequest EXCEPT !.phase = "received", !.client = hasClient,
                      !.requests = requests]

Running == {i \in DOMAIN fq.future : fq.future[i] = "running"}
Pending == {i \in DOMAIN fq.future : fq.future[i] = "pending"}

\* the endpoint up to the end of the submit loop; an empty list makes
\* ThreadPoolExecutor(max_workers=0) raise ValueError
FormatQuestions ==
    /\ fq.phase = "received"
    /\ LET n == Len(fq.requests)
       IN IF Min2(n, PoolLimit) <= 0
          THEN fq' = [fq EXCEPT !.phase = "raised"]
          ELSE fq' = [fq EXCEPT !.phase = "gathering",
                                !.max_workers = Min2(n, PoolLimit),
                                !.future = [i \in 1..n |-> "pending"],
                                !.value = [i \in 1..n |-> NoResult],
                                !.results = [i \in 1..n |-> NoResult]]
    /\ UNCHANGED notFormat

\* a worker thread takes the oldest queued call
WorkerTake ==
    /\ fq.phase = "gathering"
    /\ Pending # {}
    /\ Cardinality(Running) < fq.max_workers
    /\ LET i == CHOOSE p \in Pending : \A q \in Pending : p <= q
       IN fq' = [fq EXCEPT !.future[i] = "running"]
    /\ UNCHANGED notFormat

\* a worker thread finishes _fmt for request i
WorkerFinish(i, outcome) ==
    /\ fq.phase = "gathering"
    /\ i \in Running
    /\ fq' = [fq EXCEPT !.future[i] = "done",
                        !.value[i] = _fmt(fq.client, fq.requests[i], outcome)]
    /\ UNCHANGED notFormat

\* one turn of the as_completed loop: results[futures[fut]] = fut.result();
\* a future that raised re-raises here and ends the request
Collect(i) ==
    /\ fq.phase = "gathering"
    /\ i \in DOMAIN fq.future
    /\ fq.future[i] = "done"
    /\ IF fq.value[i].raised
       THEN fq' = [fq EXCEPT !.phase = "raised", !.future[i] = "collected"]
       ELSE fq' = [fq EXCEPT !.future[i] = "collected",
                             !.results[i] = fq.value[i]]
    /\ UNCHANGED notFormat

\* every future was yielded: the pool shuts down and the list is returned
Respond ==
    /\ fq.phase = "gathering"
    /\ \A i \in DOMAIN fq.future : fq.future[i] = "collected"
    /\ fq' = [fq EXCEPT !.phase = "responded", !.response = fq.results]
    /\ UNCHANGED notFormat

IdleFormat == fq = NoRequest

InitFormat ==
    \E hasClient \in BOOLEAN, requests \in RequestLists :
        fq = Received(hasClient, requests)

(***************************************************************************)
(* DSEPDFParser (knowledge_base/pdf_parser.py, both versions)              *)
(*                                                                         *)
(* A file is its path (a number, ordered as paths are), its extension,     *)
(* the document type its name classifies to, what opening it gives, and    *)
(* its text as a sequence of pieces: "blank" is white space only, "short"  *)
(* at most 30 characters once stripped, "long" more than 30.  delimiter    *)
(* says what separates the pieces: question numbers, section headings or   *)
(* neither.  The sliding window is modelled with one window per piece.     *)
(* The year, paper, topics and subject of a chunk's metadata are left out. *)
(***************************************************************************)
Pieces == {"blank", "short", "long"}
Extensions == {".pdf", ".txt", ".md", ".png"}
DocTypes == {"curriculum", "paper", "marking_scheme", "general"}
Contents == {"text", "scanned", "unreadable"}
Delimiters == {"question", "heading", "none"}

\* the parsers __init__ can build: the eduloop version has no OCR pass
Parsers ==
    {[version |-> "eduloop", _pymupdf_available |-> p, _ocr_available |-> FALSE] :
        p \in BOOLEAN}
    \cup
    {[version |-> "eduloop_NextJS", _pymupdf_available |-> p, _ocr_available |-> o] :
        p \in BOOLEAN, o \in BOOLEAN}

Raised == [raised |-> TRUE, value |-> <<>>]
Returned(value) == [raised |-> FALSE, value |-> value]

NonBlank(piece) == piece # "blank"
Long(piece) == piece = "long"

\* _extract_pdf_text: pages with text, else (NextJS) the text OCR reads
_extract_pdf_text(parser, file) ==
    IF ~parser._pymupdf_available THEN Raised
    ELSE IF file.content = "unreadable" THEN Raised
    ELSE LET pages_text == IF file.content = "text"
                           THEN SelectSeq(file.pieces, NonBlank)
                           ELSE <<>>
         IN IF pages_text # <<>> THEN Returned(pages_text)
            ELSE IF parser.version = "eduloop" THEN Returned(<<>>)
            ELSE IF ~parser._ocr_available THEN Returned(<<>>)
            ELSE IF file.content = "scanned"
                 THEN Returned(SelectSeq(file.pieces, NonBlank))
                 ELSE Returned(<<>>)

\* path.read_text(encoding="utf-8")
read_text(file) ==
    IF file.content = "unreadable" THEN Raised ELSE Returned(file.pieces)

\* _chunk_by_questions / _chunk_by_sections: the stripped parts longer than
\* 30 characters, when there are at least two of them
chunk_by(text, delimited) ==
    LET parts == IF delimited THEN SelectSeq(text, Long) ELSE <<>>
    IN IF Len(parts) >= 2 THEN parts ELSE <<>>

\* _chunk_sliding_window: the windows that are not blank once stripped
_chunk_sliding_window(text) == SelectSeq(text, NonBlank)

_chunk_text(text, doc_type, delimiter) ==
    LET by_questions == IF doc_type \in {"paper", "marking_scheme"}
                        THEN chunk_by(text, delimiter = "question") ELSE <<>>
        by_sections == IF doc_type = "curriculum"
                       THEN chunk_by(text, delimiter = "heading") ELSE <<>>
    IN IF by_questions # <<>> THEN by_questions
       ELSE IF by_sections # <<>> THEN by_sections
       ELSE _chunk_sliding_window(text)

\* path.stem: the paths 2k - 1 and 2k name two files of one stem, which differ
\* in their extension or in the directory they are in
stem(path) == (path + 1) \div 2

\* the loop of parse_file with the sibling count taken from the pieces of
\* the file instead of the chunks built
chunk_docs_counting_pieces(file, chunks) ==
    [j \in 1..Len(chunks) |->
        [id |-> <<stem(file.path), j - 1>>,
         text |-> chunks[j],
         metadata |-> [source_file |-> file.path,
                       document_type |-> file.doc_type,
                       chunk_index |-> j - 1,
                       total_chunks |-> Len(file.pieces)]]]

\* the two loops of parse_file: enumerate(chunks), then total_chunks =
\* len(result) on every chunk built
chunk_docs(file, chunks) ==
    LET result == [j \in 1..Len(chunks) |->
                     [id |-> <<stem(file.path), j - 1>>,
                      text |-> chunks[j],
                      metadata |-> [source_file |-> file.path,
                                    document_type |-> file.doc_type,
                                    chunk_index |-> j - 1,
                                    total_chunks |-> Len(chunks)]]]
    IN [j \in 1..Len(result) |->
          [result[j] EXCEPT !.metadata.total_chunks = Len(result)]]

parse_file(parser, file) ==
    IF ~file.exists THEN Raised
    ELSE LET raw_text == IF file.ext = ".pdf" THEN _extract_pdf_text(parser, file)
                         ELSE IF file.ext \in {".txt", ".md"} THEN read_text(file)
                         ELSE Raised
         IN IF raw_text.raised THEN Raised
            ELSE IF \A i \in DOMAIN raw_text.value : raw_text.value[i] = "blank"
                 THEN Returned(<<>>)
                 ELSE Returned(chunk_docs(file,
                         _chunk_text(raw_text.value, file.doc_type, file.delimiter)))

\* sorted(...) of a listing, by path
RECURSIVE sorted(_)
sorted(listing) ==
    IF listing = <<>> THEN <<>>
    ELSE LET least == CHOOSE i \in DOMAIN listing :
                         \A j \in DOMAIN listing : listing[i].path <= listing[j].path
             rest == [j \in 1..(Len(listing) - 1) |->
                        IF j < least THEN listing[j] ELSE listing[j + 1]]
         IN <<listing[least]>> \o sorted(rest)

\* the loop of parse_directory: all_chunks.extend(chunks) for each supported
\* file, a parse that raises being printed and passed over
RECURSIVE parse_each(_, _)
parse_each(parser, files) ==
    IF files = <<>> THEN Returned(<<>>)
    ELSE IF Head(files).ext \notin {".pdf", ".txt", ".md"}
         THEN parse_each(parser, Tail(files))
         ELSE LET chunks == parse_file(parser, Head(files))
                  later == parse_each(parser, Tail(files))
              IN IF chunks.raised THEN later
                 ELSE Returned(chunks.value \o later.value)

\* parse_directory walking the files in the order rglob lists them
parse_directory_as_listed(parser, directory) ==
    IF ~directory.exists THEN Raised
    ELSE parse_each(parser, directory.listing)

\* parse_directory: FileNotFoundError for a missing directory, else the
\* files of sorted(dir_path.rglob("*")) one after the other
parse_directory(parser, directory) ==
    IF ~directory.exists THEN Raised
    ELSE parse_each(parser, sorted(directory.listing))

\* the files given to parse_file
Files ==
    {[path |-> 1, exists |-> e, ext |-> x, doc_type |-> t, content |-> c,
      delimiter |-> d, pieces |-> p] :
        e \in BOOLEAN, x \in Extensions, t \in DocTypes, c \in Contents,
        d \in Delimiters, p \in SeqsUpTo(Pieces, MaxPieces)}

\* the kinds of file a directory holds: a paper with a text layer, a
\* scanned PDF, a PDF that does not open, notes kept as text, an empty
\* markdown file and an image
FileKinds ==
    {[ext |-> ".pdf", doc_type |-> "paper", content |-> "text",
      delimiter |-> "question", pieces |-> <<"long", "long">>],
     [ext |-> ".pdf", doc_type |-> "general", content |-> "scanned",
      delimiter |-> "none", pieces |-> <<"long">>],
     [ext |-> ".pdf", doc_type |-> "marking_scheme", content |-> "unreadable",
      delimiter |-> "none", pieces |-> <<>>],
     [ext |-> ".txt", doc_type |-> "curriculum", content |-> "text",
      delimiter |-> "heading", pieces |-> <<"short", "blank">>],
     [ext |-> ".md", doc_type |-> "general", content |-> "text",
      delimiter |-> "none", pieces |-> <<"blank">>],
     [ext |-> ".png", doc_type |-> "general", content |-> "text",
      delimiter |-> "none", pieces |-> <<"long">>]}

FileAt(path, kind) ==
    [path |-> path, exists |-> TRUE, ext |-> kind.ext, doc_type |-> kind.doc_type,
     content |-> kind.content, delimiter |-> kind.delimiter, pieces |-> kind.pieces]

\* dir_path.rglob("*") lists the files in any order
Listings ==
    UNION {{[j \in 1..n |-> FileAt(order[j], kinds[order[j]])] :
               order \in {o \in [1..n -> 1..n] : \A a, b \in 1..n : o[a] = o[b] => a = b},
               kinds \in [1..n -> FileKinds]} :
           n \in 0..MaxFiles}

NoParser == [version |-> "none", _pymupdf_available |-> FALSE, _ocr_available |-> FALSE]
NoFile ==
    [path |-> 0, exists |-> FALSE, ext |-> "", doc_type |-> "general",
     content |-> "unreadable", delimiter |-> "none", pieces |-> <<>>]
NoDirectory == [exists |-> FALSE, listing |-> <<>>]
NothingParsed == [done |-> FALSE, raised |-> FALSE, chunks |-> <<>>]

ParseFile ==
    /\ pfIn.parser # NoParser
    /\ ~pfOut.done
    /\ LET out == parse_file(pfIn.parser, pfIn.file)
       IN pfOut' = [done |-> TRUE, raised |-> out.raised, chunks |-> out.value]
    /\ UNCHANGED <<pfIn, pdIn, pdOut, notParser>>

ParseDirectory ==
    /\ pdIn.parser # NoParser
    /\ ~pdOut.done
    /\ LET out == parse_directory(pdIn.parser, pdIn.directory)
       IN pdOut' = [done |-> TRUE, raised |-> out.raised, chunks |-> out.value]
    /\ UNCHANGED <<pdIn, pfIn, pfOut, notParser>>

IdleParser ==
    /\ pfIn = [parser |-> NoParser, file |-> NoFile]
    /\ pfOut = NothingParsed
    /\ pdIn = [parser |-> NoParser, directory |-> NoDirectory]
    /\ pdOut = NothingParsed

InitFileParser ==
    /\ \E parser \in Parsers, file \in Files : pfIn = [parser |-> parser, file |-> file]
    /\ pfOut = NothingParsed
    /\ pdIn = [parser |-> NoParser, directory |-> NoDirectory]
    /\ pdOut = NothingParsed

InitDirectoryParser ==
    /\ pfIn = [parser |-> NoParser, file |-> NoFile]
    /\ pfOut = NothingParsed
    /\ \E parser \in Parsers, exists \in BOOLEAN :
          \E listing \in (IF exists THEN Listings ELSE {<<>>}) :
             pdIn = [parser |-> parser,
                     directory |-> [exists |-> exists, listing |-> listing]]
    /\ pdOut = NothingParsed

(***************************************************************************)
(* DSERetriever (eduloop/knowledge_base/rag_retriever.py)                  *)
(*                                                                         *)
(* rr holds whether _collection is set, the ids stored in the persisted    *)
(* ChromaDB collection, and the number of similarity queries issued on     *)
(* it.  Document 1 is the one a metadata filter matches.  The ranking by   *)
(* similarity is not modelled: a query gives the lowest matching ids.      *)
(***************************************************************************)
DocIds == 1..MaxDocs
Ks == -1..(MaxDocs + 1)

NewRetriever(stored) ==
    [_collection |-> FALSE, store |-> stored, queries |-> 0, ops |-> 0]

\* _ensure_initialised: get_or_create_collection on first use
_ensure_initialised(r) == [r EXCEPT !._collection = TRUE]

\* the ids of S in increasing order
RECURSIVE Ascending(_)
Ascending(S) ==
    IF S = {} THEN <<>>
    ELSE LET least == CHOOSE x \in S : \A y \in S : x <= y
         IN <<least>> \o Ascending(S \ {least})

\* collection.query: n_results must be positive; at most n_results of the
\* documents the filter lets through
query(store, n_results, where) ==
    IF n_results <= 0 THEN Raised
    ELSE LET matching == Ascending(IF where THEN store \cap {1} ELSE store)
         IN Returned(SubSeq(matching, 1, Min2(n_results, Len(matching))))

\* retrieve without its guard against an empty collection
retrieve_unguarded(r, k, where) ==
    LET r1 == _ensure_initialised(r)
        count == Cardinality(r1.store)
        n_results == Min2(k, IF count # 0 THEN count ELSE k)
        results == query(r1.store, n_results, where)
    IN [retriever |-> [r1 EXCEPT !.queries = @ + 1],
        raised |-> results.raised, value |-> results.value]

\* DSERetriever.retrieve
retrieve(r, k, where) ==
    LET r1 == _ensure_initialised(r)
        count == Cardinality(r1.store)
        n_results == Min2(k, IF count # 0 THEN count ELSE k)
    IN IF count = 0
       THEN [retriever |-> r1, raised |-> FALSE, value |-> <<>>]
       ELSE LET results == query(r1.store, n_results, where)
            IN [retriever |-> [r1 EXCEPT !.queries = @ + 1],
                raised |-> results.raised, value |-> results.value]

\* DSERetriever.ingest: upsert of the chunks' ids
ingest(r, ids) ==
    LET r1 == _ensure_initialised(r)
    IN IF ids = {} THEN r1 ELSE [r1 EXCEPT !.store = @ \cup ids]

\* DSERetriever.reset: delete_collection, then an empty one is created
reset(r) ==
    LET r1 == _ensure_initialised(r)
        deleted == [r1 EXCEPT !.store = {}, !._collection = FALSE]
    IN _ensure_initialised(deleted)

\* reset_seen: reset was called; clean: nothing was ingested since the last
\* reset; held: what the collection held when it was last reset
NoRetrieverCall ==
    [op |-> "none", k |-> 0, where |-> FALSE, raised |-> FALSE, value |-> <<>>,
     n |-> 0, pre |-> NewRetriever({}), reset_seen |-> FALSE, clean |-> FALSE,
     held |-> {}]

Retrieve(k, where) ==
    /\ rr.ops < MaxRetrieverOps
    /\ LET out == retrieve(rr, k, where)
       IN /\ rr' = [out.retriever EXCEPT !.ops = @ + 1]
          /\ rrCall' = [rrCall EXCEPT !.op = "retrieve", !.k = k, !.where = where,
                                      !.raised = out.raised, !.value = out.value,
                                      !.n = 0, !.pre = rr]
    /\ UNCHANGED notRetriever

Ingest(ids) ==
    /\ rr.ops < MaxRetrieverOps
    /\ rr' = [ingest(rr, ids) EXCEPT !.ops = @ + 1]
    /\ rrCall' = [rrCall EXCEPT !.op = "ingest", !.k = 0, !.where = FALSE,
                                !.raised = FALSE, !.value = <<>>,
                                !.n = Cardinality(ids), !.pre = rr,
                                !.clean = @ /\ ids = {}]
    /\ UNCHANGED notRetriever

CountDocuments ==
    /\ rr.ops < MaxRetrieverOps
    /\ rr' = [_ensure_initialised(rr) EXCEPT !.ops = @ + 1]
    /\ rrCall' = [rrCall EXCEPT !.op = "count", !.k = 0, !.where = FALSE,
                                !.raised = FALSE, !.value = <<>>,
                                !.n = Cardinality(rr.store), !.pre = rr]
    /\ UNCHANGED notRetriever

Reset ==
    /\ rr.ops < MaxRetrieverOps
    /\ rr' = [reset(rr) EXCEPT !.ops = @ + 1]
    /\ rrCall' = [rrCall EXCEPT !.op = "reset", !.k = 0, !.where = FALSE,
                                !.raised = FALSE, !.value = <<>>, !.n = 0,
                                !.pre = rr, !.reset_seen = TRUE, !.clean = TRUE,
                                !.held = rr.store]
    /\ UNCHANGED notRetriever

IdleRetriever == rr = NewRetriever({}) /\ rrCall = NoRetrieverCall

\* the persisted collection may hold anything when the retriever is built
InitRetriever ==
    /\ \E stored \in SUBSET DocIds : rr = NewRetriever(stored)
    /\ rrCall = NoRetrieverCall

(***************************************************************************)
(* Lookups by identifier: the rule-based AssessmentAgent's assessment and  *)
(* report histories, the TeachingAgent's lesson history and the            *)
(* BedrockOrchestrator's session registry.  An entry is represented by its *)
(* identifier.                                                             *)
(***************************************************************************)
\* identifiers a caller can pass; generated ones are drawn from the same set
EntityIds == {"id_a", "id_b"}
NoId == "none"

\* the stores as the constructors leave them
NewStores ==
    [assessment_history |-> <<>>, report_history |-> <<>>,
     session_lessons |-> <<>>, _sessions |-> {}]

\* generate_assessment: a new assessment under a generated id
generate_assessment_entry(stores, id) ==
    [stores EXCEPT !.assessment_history = Append(@, id)]

\* generate_lesson: a new lesson under a generated id
generate_lesson_entry(stores, id) ==
    [stores EXCEPT !.session_lessons = Append(@, id)]

\* AssessmentAgent.generate_diagnostic_report: appends the report
generate_diagnostic_report(stores, assessment_id) ==
    [stores EXCEPT !.report_history = Append(@, assessment_id)]

\* an evaluation that scores the submission without looking the id up first
evaluate_unchecked(stores, assessment_id, scoring) ==
    IF scoring = "raise"
    THEN [stores |-> stores, outcome |-> "raised"]
    ELSE [stores |-> generate_diagnostic_report(stores, assessment_id),
          outcome |-> "results"]

\* AssessmentAgent.evaluate_student_response: the lookup, the scoring (which
\* may raise on the submission) and the report
evaluate_by_id(stores, assessment_id, scoring) ==
    IF assessment_id \notin Range(stores.assessment_history)
    THEN [stores |-> stores, outcome |-> "ValueError: not found"]
    ELSE IF scoring = "raise"
    THEN [stores |-> stores, outcome |-> "raised"]
    ELSE [stores |-> generate_diagnostic_report(stores, assessment_id),
          outcome |-> "results"]

\* TeachingAgent.export_lesson
export_lesson(stores, lesson_id) ==
    [stores |-> stores,
     outcome |-> IF lesson_id \in Range(stores.session_lessons) THEN "json" ELSE "None"]

\* BedrockOrchestrator.get_or_create_session; generated is the id a new
\* BedrockSession gives itself when none is passed
get_or_create_session(stores, session_id, generated) ==
    IF session_id # NoId /\ session_id \in stores._sessions
    THEN stores
    ELSE [stores EXCEPT !._sessions =
             @ \cup {IF session_id # NoId THEN session_id ELSE generated}]

\* BedrockOrchestrator.get_session_report
get_session_report(stores, session_id) ==
    [stores |-> stores,
     outcome |-> IF session_id \in stores._sessions
                 THEN "report" ELSE "error: Session not found"]

\* a call that adds an entry to a store
Store(stores) ==
    /\ lk' = stores
    /\ UNCHANGED lkCall
    /\ UNCHANGED notLookup

\* a call that looks an identifier up in a store, logged with the ids the
\* store held before the call and whether the call changed any store
Lookup(op, id, held, result) ==
    /\ Len(lkCall) < MaxLookups
    /\ lk' = result.stores
    /\ lkCall' = Append(lkCall, [op |-> op, id |-> id, outcome |-> result.outcome,
                                 held |-> held, changed |-> result.stores # lk])
    /\ UNCHANGED notLookup

GenerateAssessmentEntry ==
    \E id \in EntityIds \ Range(lk.assessment_history) :
        Store(generate_assessment_entry(lk, id))

EvaluateById(assessment_id, scoring) ==
    Lookup("evaluate_student_response", assessment_id, Range(lk.assessment_history),
           evaluate_by_id(lk, assessment_id, scoring))

GenerateLessonEntry ==
    \E id \in EntityIds \ Range(lk.session_lessons) :
        Store(generate_lesson_entry(lk, id))

ExportLesson(lesson_id) ==
    Lookup("export_lesson", lesson_id, Range(lk.session_lessons),
           export_lesson(lk, lesson_id))

GetOrCreateSession(session_id) ==
    \E generated \in EntityIds \ lk._sessions :
        Store(get_or_create_session(lk, session_id, generated))

GetSessionReport(session_id) ==
    Lookup("get_session_report", session_id, lk._sessions,
           get_session_report(lk, session_id))

IdleLookup == lk = NewStores /\ lkCall = <<>>

\* the agents and the orchestrator as constructed
InitLookup == lk = NewStores /\ lkCall = <<>>

(***************************************************************************)
(* Concurrent requests to /api/teach, /api/assess and /api/chat            *)
(* (backend/main.py).  The handlers are plain functions, so the server     *)
(* runs each request on a worker thread; all of them use the agents and    *)
(* the retriever that startup() created once.  A request records every     *)
(* shared object it read or wrote.                                         *)
(***************************************************************************)
RequestIds == 1..MaxInflight
Endpoints  == {"/api/teach", "/api/assess", "/api/chat"}

\* the singletons after startup(): the retriever has not opened its
\* collection yet and both lists are empty
NewShared ==
    [rag_collection |-> FALSE, rag_inits |-> 0,
     session_lessons |-> <<>>, assessment_history |-> <<>>]

NoRequest24 ==
    [endpoint |-> "none", pc |-> "none", agent |-> "none",
     touched |-> {}, response |-> 0]

InFlight(r) == rq[r].pc \notin {"none", "done"}

Step(r, pc, touched) == [rq EXCEPT ![r].pc = pc, ![r].touched = @ \cup touched]

\* a request arrives and its handler starts: teach and assess go straight to
\* their agent, chat first asks the orchestrator for a decision
teach_request(r) ==
    /\ rq[r].pc = "none"
    /\ rq' = [rq EXCEPT ![r] = [endpoint |-> "/api/teach", pc |-> "retrieve",
                                agent |-> "teaching", touched |-> {}, response |-> 0]]
    /\ UNCHANGED <<sh, notRequests>>

assess_request(r) ==
    /\ rq[r].pc = "none"
    /\ rq' = [rq EXCEPT ![r] = [endpoint |-> "/api/assess", pc |-> "retrieve",
                                agent |-> "assessment", touched |-> {}, response |-> 0]]
    /\ UNCHANGED <<sh, notRequests>>

chat_request(r) ==
    /\ rq[r].pc = "none"
    /\ rq' = [rq EXCEPT ![r] = [endpoint |-> "/api/chat", pc |-> "decide",
                                agent |-> "orchestrator", touched |-> {}, response |-> 0]]
    /\ UNCHANGED <<sh, notRequests>>

\* OrchestratorAgent.chat: the decision sends the request to the Teaching
\* Agent, to the Assessment Agent, or is answered directly
chat_decide(r, action) ==
    /\ rq[r].pc = "decide"
    /\ rq' = [rq EXCEPT ![r].pc = IF action = "direct" THEN "respond" ELSE "retrieve",
                        ![r].agent = IF action = "teach" THEN "teaching"
                                     ELSE IF action = "assess" THEN "assessment"
                                     ELSE "orchestrator"]
    /\ UNCHANGED <<sh, notRequests>>

\* DSERetriever._ensure_initialised, first half: the test of _collection
ensure_initialised_test(r) ==
    /\ rq[r].pc = "retrieve"
    /\ rq' = Step(r, IF sh.rag_collection THEN "query" ELSE "open", {"rag"})
    /\ UNCHANGED <<sh, notRequests>>

\* DSERetriever._ensure_initialised, second half: the client and the
\* collection are created and stored on the retriever
ensure_initialised_open(r) ==
    /\ rq[r].pc = "open"
    /\ sh' = [sh EXCEPT !.rag_collection = TRUE, !.rag_inits = @ + 1]
    /\ rq' = Step(r, "query", {"rag"})
    /\ UNCHANGED notRequests

\* the _retrieve calls and the model call of generate_lesson / evaluate
retrieve_and_call_llm(r) ==
    /\ rq[r].pc = "query"
    /\ rq' = Step(r, "package", {"rag"})
    /\ UNCHANGED <<sh, notRequests>>

\* self.session_lessons.append(lesson) / self.assessment_history.append(result)
append_result(r) ==
    /\ rq[r].pc = "package"
    /\ IF rq[r].agent = "teaching"
       THEN /\ sh' = [sh EXCEPT !.session_lessons = Append(@, r)]
            /\ rq' = Step(r, "respond", {"session_lessons"})
       ELSE /\ sh' = [sh EXCEPT !.assessment_history = Append(@, r)]
            /\ rq' = Step(r, "respond", {"assessment_history"})
    /\ UNCHANGED notRequests

\* the handler returns what its agent call returned
return_response(r) ==
    /\ rq[r].pc = "respond"
    /\ rq' = [rq EXCEPT ![r].pc = "done", ![r].response = r]
    /\ UNCHANGED <<sh, notRequests>>

IdleRequests == rq = [r \in RequestIds |-> NoRequest24] /\ sh = NewShared

\* the server after startup(), no request received yet
InitRequests == rq = [r \in RequestIds |-> NoRequest24] /\ sh = NewShared

(***************************************************************************)
(* DSEPDFParser._chunk_sliding_window on character positions.  A text is   *)
(* its length; what str.rfind returns for the paragraph and sentence       *)
(* breaks of a window depends on the text and is chosen among positions    *)
(* of the window, or -1 when the window holds no such break.  A window is  *)
(* the slice text[start:end].                                              *)
(***************************************************************************)
max_size == 1000
overlap  == 150

NotFound == -1

\* where the last break of a window can lie, counted from the window start
BreakOffsets == {100, 500, 501, 998, 999}

\* text.rfind(sub, start, end) for a break of the given length: -1 or a
\* position at which the whole break still lies inside the window
rfind_in_window(start, end, length) ==
    {NotFound} \cup {start + o : o \in {b \in BreakOffsets : start + b + length <= end}}

\* a window end that takes any break behind the window start
window_end_any_break(start, text_len, para_break, sent_break) ==
    LET end == Min2(start + max_size, text_len) IN
    IF end < text_len
    THEN IF para_break > start THEN para_break
         ELSE IF sent_break > start THEN sent_break + 1
         ELSE end
    ELSE end

\* the end of the window that starts at start
window_end(start, text_len, para_break, sent_break) ==
    LET end == Min2(start + max_size, text_len) IN
    IF end < text_len
    THEN IF para_break > start + max_size \div 2 THEN para_break
         ELSE IF sent_break > start + max_size \div 2 THEN sent_break + 1
         ELSE end
    ELSE end

\* start = end - overlap if end < text_len else text_len
next_start(end, text_len) == IF end < text_len THEN end - overlap ELSE text_len

NewWindowCall(text_len) ==
    [text_len |-> text_len, start |-> 0, pc |-> "loop",
     windows |-> 0, chunks |-> 0,
     last_start |-> NotFound, last_end |-> 0, advanced |-> TRUE, covered |-> 0]

\* one pass of the while loop; blank tells whether the window is white
\* space only, in which case no chunk is appended
SlideWindow(blank) ==
    /\ sw.pc = "loop"
    /\ sw.start < sw.text_len
    /\ LET first == Min2(sw.start + max_size, sw.text_len) IN
       \E para_break \in rfind_in_window(sw.start, first, 2), sent_break \in rfind_in_window(sw.start, first, 1) :
         LET end == window_end(sw.start, sw.text_len, para_break, sent_break) IN
         sw' = [sw EXCEPT
                  !.windows    = @ + 1,
                  !.chunks     = IF blank THEN @ ELSE @ + 1,
                  !.last_start = sw.start,
                  !.last_end   = end,
                  !.advanced   = @ /\ sw.start > sw.last_start,
                  !.covered    = IF sw.start <= @ /\ end > @ THEN end ELSE @,
                  !.start      = next_start(end, sw.text_len)]
    /\ UNCHANGED notWindow

\* the loop condition fails and the chunks are returned
ReturnChunks ==
    /\ sw.pc = "loop"
    /\ ~(sw.start < sw.text_len)
    /\ sw' = [sw EXCEPT !.pc = "returned"]
    /\ UNCHANGED notWindow

IdleWindow == sw = NewWindowCall(0)

\* a call on a text of any length up to the bound
InitWindow == \E text_len \in 0..MaxTextLen : sw = NewWindowCall(text_len)

(***************************************************************************)
(* The ingestion pipeline (eduloop_NextJS/knowledge_base/ingest.py main).  *)
(*                                                                         *)
(* ig holds the position of main and its locals: the retriever, the chunks *)
(* parsed so far, the number ingest returned and the total the statistics  *)
(* report.  The collection is kept as the set of the ids it holds.  What   *)
(* ChromaDB does with one upsert call that names an id twice is not in the *)
(* repository: either outcome is taken.                                    *)
(***************************************************************************)
batch_size == 100
DuplicateOutcomes == {"DuplicateIDError", "last wins"}

\* the ids of a list of chunks, in order
chunk_ids(chunks) == [j \in DOMAIN chunks |-> chunks[j].id]

Distinct(ids) == \A a, b \in DOMAIN ids : ids[a] = ids[b] => a = b

\* collection.upsert on the ids of one batch
upsert(store, ids, on_duplicates) ==
    IF ~Distinct(ids) /\ on_duplicates = "DuplicateIDError" THEN Raised
    ELSE Returned(store \cup Range(ids))

\* the loop of DSERetriever.ingest from chunks[start] on, start counted from 0
RECURSIVE ingest_batches(_, _, _, _, _)
ingest_batches(r, chunks, start, ingested, on_duplicates) ==
    IF start >= Len(chunks) THEN [retriever |-> r, raised |-> FALSE, value |-> ingested]
    ELSE LET batch == SubSeq(chunks, start + 1, Min2(start + batch_size, Len(chunks)))
             stored == upsert(r.store, chunk_ids(batch), on_duplicates)
         IN IF stored.raised
            THEN [retriever |-> r, raised |-> TRUE, value |-> ingested]
            ELSE ingest_batches([r EXCEPT !.store = stored.value], chunks,
                                start + batch_size, ingested + Len(batch),
                                on_duplicates)

\* DSERetriever.ingest on the list of chunks
ingest_chunks(r, chunks, on_duplicates) ==
    LET r1 == _ensure_initialised(r)
    IN IF chunks = <<>> THEN [retriever |-> r1, raised |-> FALSE, value |-> 0]
       ELSE ingest_batches(r1, chunks, 0, 0, on_duplicates)

\* get_stats()["total_chunks"], which is count()
total_chunks(r) == Cardinality(_ensure_initialised(r).store)

\* the loop of main over the loose files, a parse that raises being printed
\* and passed over
RECURSIVE parse_loose_files(_, _)
parse_loose_files(parser, files) ==
    IF files = <<>> THEN <<>>
    ELSE LET chunks == parse_file(parser, Head(files))
         IN (IF chunks.raised THEN <<>> ELSE chunks.value)
            \o parse_loose_files(parser, Tail(files))

\* the files the pipeline finds: text PDFs, PDFs that do not open and notes
\* kept as text
IngestKinds ==
    {k \in FileKinds : k.ext \in {".pdf", ".txt"} /\ k.content # "scanned"}

\* the files of one folder in the order sorted() gives them
IngestListings ==
    {l \in UNION {[1..n -> {FileAt(path, kind) : path \in 1..MaxFiles,
                                                  kind \in IngestKinds}] :
                  n \in 0..MaxDirFiles} :
        \A a, b \in DOMAIN l : a < b => l[a].path < l[b].path}

IngestDirectories ==
    {NoDirectory} \cup {[exists |-> TRUE, listing |-> l] : l \in IngestListings}

\* the data directory: the two folders and the loose files at its root
DataDirs ==
    [dse_curriculum : IngestDirectories, sample_papers : IngestDirectories,
     loose_files : {l \in IngestListings : Len(l) <= MaxLoose}]

NoDataDir ==
    [dse_curriculum |-> NoDirectory, sample_papers |-> NoDirectory,
     loose_files |-> <<>>]

\* main after parse_args
NewPipeline(args_reset, data_dir, parser, stored) ==
    [pc |-> "step 1", reset |-> args_reset, data_dir |-> data_dir,
     pdf_parser |-> parser, retriever |-> NewRetriever(stored),
     all_chunks |-> <<>>, num_ingested |-> 0, stats |-> 0]

\* Step 1: the retriever, emptied under --reset
InitialiseRetriever ==
    /\ ig.pc = "step 1"
    /\ ig' = [ig EXCEPT !.pc = "step 2",
                        !.retriever = IF ig.reset THEN reset(@) ELSE @]
    /\ UNCHANGED notIngest

\* one folder of Step 2: parse_directory when the folder is there
parse_folder(parser, directory) ==
    IF directory.exists THEN parse_directory(parser, directory).value ELSE <<>>

\* Step 2: dse_curriculum/, sample_papers/, then the loose files; main exits
\* when nothing was extracted
ParseDocuments ==
    /\ ig.pc = "step 2"
    /\ LET curriculum_chunks == parse_folder(ig.pdf_parser, ig.data_dir.dse_curriculum)
           paper_chunks == parse_folder(ig.pdf_parser, ig.data_dir.sample_papers)
           loose_chunks == parse_loose_files(ig.pdf_parser, ig.data_dir.loose_files)
           all_chunks == curriculum_chunks \o paper_chunks \o loose_chunks
       IN ig' = [ig EXCEPT !.all_chunks = all_chunks,
                           !.pc = IF all_chunks = <<>> THEN "exit 1" ELSE "step 3"]
    /\ UNCHANGED notIngest

\* Step 3: retriever.ingest(all_chunks)
IngestChunks(on_duplicates) ==
    /\ ig.pc = "step 3"
    /\ LET out == ingest_chunks(ig.retriever, ig.all_chunks, on_duplicates)
       IN ig' = [ig EXCEPT !.retriever = out.retriever,
                           !.num_ingested = out.value,
                           !.pc = IF out.raised THEN "raised" ELSE "step 4"]
    /\ UNCHANGED notIngest

\* Step 4: the summary printed from get_stats()
PrintSummary ==
    /\ ig.pc = "step 4"
    /\ ig' = [ig EXCEPT !.stats = total_chunks(ig.retriever),
                        !.retriever = _ensure_initialised(@),
                        !.pc = "step 5"]
    /\ UNCHANGED notIngest

IdleIngest == ig = NewPipeline(FALSE, NoDataDir, NoParser, {})

\* main started on any data directory, with or without --reset, over a
\* persisted collection that is empty or holds chunks of an earlier run
InitIngest ==
    \E args_reset \in BOOLEAN, data_dir \in DataDirs,
       parser \in {p \in Parsers : p.version = "eduloop_NextJS" /\ ~p._ocr_available},
       stored \in {{}, {<<1, 0>>, <<MaxFiles, 0>>}} :
        ig = NewPipeline(args_reset, data_dir, parser, stored)

\* every component but the one under study is left as constructed
IdleAllBut(component) ==
    /\ IF component = "bedrock"  THEN TRUE ELSE IdleBedrock
    /\ IF component = "classify" THEN TRUE ELSE IdleClassify
    /\ IF component = "loop"     THEN TRUE ELSE IdleLoop
    /\ IF component = "marking"  THEN TRUE ELSE IdleMarking
    /\ IF component = "gen"      THEN TRUE ELSE IdleGen
    /\ IF component = "level"    THEN TRUE ELSE IdleLevel
    /\ IF component = "json"     THEN TRUE ELSE IdleJson
    /\ IF component = "agents"   THEN TRUE ELSE IdleAgents
    /\ IF component = "format"   THEN TRUE ELSE IdleFormat
    /\ IF component = "parser"   THEN TRUE ELSE IdleParser
    /\ IF component = "retriever" THEN TRUE ELSE IdleRetriever
    /\ IF component = "lookup" THEN TRUE ELSE IdleLookup
    /\ IF component = "requests" THEN TRUE ELSE IdleRequests
    /\ IF component = "window" THEN TRUE ELSE IdleWindow
    /\ IF component = "ingest" THEN TRUE ELSE IdleIngest

\* the cloud orchestration session: direct transitions and routed messages
Init == InitBedrock /\ IdleAllBut("bedrock")

Next ==
    \/ \E new_state \in LoopState : Transition(new_state)
    \/ \E message \in RouteMessages, topic \in Topics : Route(message, topic)

Spec == Init /\ [][Next]_vars

\* a session driven by route() calls only
NextRoute == \E message \in RouteMessages, topic \in Topics : RouteOnly(message, topic)
SpecRoute == Init /\ [][NextRoute]_vars

\* the intent classifier on every message
InitClassifier == InitClassify /\ IdleAllBut("classify")
NextClassifier == Classify
SpecClassifier == InitClassifier /\ [][NextClassifier]_vars

\* the Loop Manager under every call order
InitLoopManager == InitLoop /\ IdleAllBut("loop")
NextLoopManager ==
    \/ \E d \in StudentData : initialize_session(d)
    \/ \E r \in LessonRequests : transition_to_teaching(r)
    \/ \E d \in TeachingData : transition_to_assessment(d)
    \/ \E d \in AssessmentData : transition_to_analysis(d)
    \/ \E d \in AssessmentData : process_feedback_loop(d)
    \/ \E i \in Interactions : log_interaction(i)
SpecLoopManager == InitLoopManager /\ [][NextLoopManager]_vars

\* the marking-scheme split on every type and total
InitScheme == InitMarking /\ IdleAllBut("marking")
NextScheme == CreateMarkingScheme
SpecScheme == InitScheme /\ [][NextScheme]_vars

\* assessment generation, rule-based and lesson-based
InitGenerate == InitGen /\ IdleAllBut("gen")
NextGenerate ==
    \/ GenerateRuleBased
    \/ GenerateFromLesson
    \/ \E i \in 1..MaxNum, a \in Answers : EvaluateRuleBased(i, a)
    \/ \E grade \in GradeReplies : EvaluateLesson(grade)
SpecGenerate == InitGenerate /\ [][NextGenerate]_vars

\* the level ladder on every pair of marks
InitAssessLevel == InitLevel /\ IdleAllBut("level")
NextAssessLevel == AssessLevel
SpecAssessLevel == InitAssessLevel /\ [][NextAssessLevel]_vars

\* the JSON extraction on plain, fenced and junk texts
InitParse == InitJson /\ IdleAllBut("json")
NextParse == SafeJsonParse
SpecParse == InitParse /\ [][NextParse]_vars

\* the three MiniMax agents, with and without API keys
InitMiniMax == InitAgents /\ IdleAllBut("agents")
NextMiniMax ==
    \/ \E outcome \in CallOutcomes : generate_lesson(outcome)
    \/ \E outcome \in CallOutcomes : evaluate(outcome)
    \/ ChatNoKey
    \/ \E decided \in DecideOutcomes : ChatDirect(decided)
    \/ \E decided \in DecideOutcomes, outcome \in CallOutcomes : ChatTeach(decided, outcome)
    \/ \E decided \in DecideOutcomes, outcome \in CallOutcomes : ChatAssess(decided, outcome)
SpecMiniMax == InitMiniMax /\ [][NextMiniMax]_vars

\* one batch formatting request and its worker threads
InitFormatQuestions == InitFormat /\ IdleAllBut("format")
NextFormatQuestions ==
    \/ FormatQuestions
    \/ WorkerTake
    \/ \E i \in 1..MaxReq, outcome \in FormatOutcomes : WorkerFinish(i, outcome)
    \/ \E i \in 1..MaxReq : Collect(i)
    \/ Respond
SpecFormatQuestions == InitFormatQuestions /\ [][NextFormatQuestions]_vars

\* parse_file on one file
InitParseFile == InitFileParser /\ IdleAllBut("parser")
NextParseFile == ParseFile
SpecParseFile == InitParseFile /\ [][NextParseFile]_vars

\* the two batch operations: parse_directory on one directory, or one batch
\* formatting request
InitBatch ==
    \/ InitDirectoryParser /\ IdleAllBut("parser")
    \/ InitFormat /\ IdleAllBut("format")
NextBatch ==
    \/ ParseDirectory
    \/ FormatQuestions
    \/ WorkerTake
    \/ \E i \in 1..MaxReq, outcome \in FormatOutcomes : WorkerFinish(i, outcome)
    \/ \E i \in 1..MaxReq : Collect(i)
    \/ Respond
SpecBatch == InitBatch /\ [][NextBatch]_vars

\* the retriever over a persisted collection
InitRetrieve == InitRetriever /\ IdleAllBut("retriever")
NextRetrieve ==
    \/ \E k \in Ks, where \in BOOLEAN : Retrieve(k, where)
    \/ \E ids \in SUBSET DocIds : Ingest(ids)
    \/ CountDocuments
    \/ Reset
SpecRetrieve == InitRetrieve /\ [][NextRetrieve]_vars

\* the histories and the session registry under lookups by identifier
InitLookups == InitLookup /\ IdleAllBut("lookup")
NextLookups ==
    \/ GenerateAssessmentEntry
    \/ \E id \in EntityIds, scoring \in {"score", "raise"} : EvaluateById(id, scoring)
    \/ GenerateLessonEntry
    \/ \E id \in EntityIds : ExportLesson(id)
    \/ \E id \in EntityIds \cup {NoId} : GetOrCreateSession(id)
    \/ \E id \in EntityIds : GetSessionReport(id)
SpecLookups == InitLookups /\ [][NextLookups]_vars

\* requests handled concurrently by the backend
InitBackend == InitRequests /\ IdleAllBut("requests")
NextBackend ==
    \E r \in RequestIds :
        \/ teach_request(r)
        \/ assess_request(r)
        \/ chat_request(r)
        \/ \E action \in {"teach", "assess", "direct"} : chat_decide(r, action)
        \/ ensure_initialised_test(r)
        \/ ensure_initialised_open(r)
        \/ retrieve_and_call_llm(r)
        \/ append_result(r)
        \/ return_response(r)
SpecBackend == InitBackend /\ [][NextBackend]_vars

\* the sliding window on texts of every length; the loop is a sequential
\* program, so a pass that can be taken is taken
InitSlidingWindow == InitWindow /\ IdleAllBut("window")
NextSlidingWindow ==
    \/ \E blank \in BOOLEAN : SlideWindow(blank)
    \/ ReturnChunks
SpecSlidingWindow ==
    InitSlidingWindow /\ [][NextSlidingWindow]_vars /\ WF_vars(NextSlidingWindow)

\* the ingestion pipeline on one data directory
InitPipeline == InitIngest /\ IdleAllBut("ingest")
NextPipeline ==
    \/ InitialiseRetriever
    \/ ParseDocuments
    \/ \E on_duplicates \in DuplicateOutcomes : IngestChunks(on_duplicates)
    \/ PrintSummary
SpecPipeline == InitPipeline /\ [][NextPipeline]_vars

(***************************************************************************)
(* Properties                                                              *)
(***************************************************************************)
\* the events the last call appended to the session history
NewEvents == SubSeq(session.history, Len(lastCall.pre.history) + 1, Len(session.history))

NoRepeats(q) == \A i, j \in 1..Len(q) : q[i] = q[j] => i = j

RECURSIVE SumValues(_)
SumValues(f) ==
    IF DOMAIN f = {} THEN 0
    ELSE LET k == CHOOSE x \in DOMAIN f : TRUE
         IN f[k] + SumValues([x \in DOMAIN f \ {k} |-> f[x]])

\* C1: transition(new_state) is advisory only: after a direct call the
\* session's state is the target, whatever the state before; a target
\* outside the transition table is warned about, exactly once, and a target
\* inside it is not.
C1_TransitionAdvisory ==
    lastCall.op = "transition" =>
        /\ session.state = lastCall.target
        /\ lastCall.warned =
             (IF lastCall.target \in valid_transitions[lastCall.pre.state] THEN 0 ELSE 1)

\* idle -> completed was forced, with a warning
C1_Witness ==
    /\ lastCall.op = "transition"
    /\ lastCall.pre.state = "idle"
    /\ lastCall.target = "completed"
    /\ lastCall.warned = 1
    /\ session.state = "completed"

\* C2: transition(teaching) adds exactly 1 to loop_count from every prior
\* state, teaching included, any other target leaves it unchanged, and so
\* loop_count is the number of transitions so far whose target was teaching.
C2_LoopCount ==
    /\ session.loop_count =
         Cardinality({i \in 1..Len(translog) : translog[i] = "teaching"})
    /\ lastCall.op = "transition" =>
         session.loop_count =
           lastCall.pre.loop_count + (IF lastCall.target = "teaching" THEN 1 ELSE 0)

\* teaching was entered from teaching and counted a second time
C2_Witness ==
    /\ lastCall.op = "transition"
    /\ lastCall.pre.state = "teaching"
    /\ lastCall.target = "teaching"
    /\ session.loop_count = 2

\* C3: session.knowledge_gaps never holds a value twice.
C3_NoDuplicateGaps == NoRepeats(session.knowledge_gaps)

\* an assessment reported a gap twice in one report, one that was recorded
\* before, and the report was merged
C3_Witness ==
    /\ lastCall.op = "route"
    /\ lastCall.intent = "assess"
    /\ lastCall.reply = "evaluation"
    /\ lastCall.pre.knowledge_gaps # <<>>
    /\ Len(session.assessment_report.gaps) = 2
    /\ session.assessment_report.gaps[1] = session.assessment_report.gaps[2]
    /\ session.assessment_report.gaps[1] \in Range(lastCall.pre.knowledge_gaps)
    /\ Range(session.knowledge_gaps) = Range(lastCall.pre.knowledge_gaps)

\* C4: without a Bedrock client, or when the classification call raises, the
\* lower-cased message alone decides: a teach keyword gives teach with 0.7
\* even next to an assess keyword, otherwise an assess keyword gives assess
\* with 0.7, otherwise the intent is direct with 0.5.
C4_FallbackKeywords ==
    (clsOut.done /\ (~clsIn.client \/ clsIn.llm.kind = "raise")) =>
        LET msg    == lower(clsIn.message)
            teach  == AnyKeyword(TeachKeywords, msg)
            assess == AnyKeyword(AssessKeywords, msg)
        IN /\ teach => clsOut.intent = "teach" /\ clsOut.confidence = 7
           /\ (~teach /\ assess) => clsOut.intent = "assess" /\ clsOut.confidence = 7
           /\ (~teach /\ ~assess) => clsOut.intent = "direct" /\ clsOut.confidence = 5

\* the call raised on "Teachtest", which holds a teach and an assess keyword
C4_Witness ==
    /\ clsOut.done
    /\ clsIn.client
    /\ clsIn.llm.kind = "raise"
    /\ clsIn.message = <<"T","e","a","c","h","t","e","s","t">>
    /\ clsOut.intent = "teach"
    /\ clsOut.confidence = 7

\* what C5 says of a finished feedback_loop call, up to the teaching invocation
C5_Common ==
    /\ lastCall.path[1] = "reviewing"
    /\ IF lastCall.pre.knowledge_gaps = <<>>
       THEN /\ session.state = "completed"
            /\ session.loop_count = lastCall.pre.loop_count
            /\ lastCall.teach_calls = <<>>
       ELSE /\ Len(NewEvents) >= 2
            /\ NewEvents[2].event = "feedback_loop_triggered"
            /\ NewEvents[2].state = "reviewing"
            /\ session.state = "teaching"
            /\ session.loop_count = lastCall.pre.loop_count + 1

C5_InvokedOnce ==
    /\ Len(lastCall.teach_calls) = 1
    /\ lastCall.teach_calls[1].topic =
         Remediation(session.current_topic, session.knowledge_gaps[1])
    /\ lastCall.teach_calls[1].difficulty_adjustment = "easier"

\* C5 as stated: with gaps recorded, a feedback_loop call always invokes the
\* Teaching Agent once on the remediation topic.
C5_Original ==
    (lastCall.op = "route" /\ lastCall.intent = "feedback_loop") =>
        /\ C5_Common
        /\ lastCall.pre.knowledge_gaps # <<>> => C5_InvokedOnce

\* C5, amended: a feedback_loop call first moves to reviewing; without gaps
\* it ends in completed, loop_count unchanged, no Teaching Agent invocation;
\* with gaps it records feedback_loop_triggered in state reviewing and ends
\* in teaching with loop_count + 1, and it invokes the Teaching Agent once,
\* on the remediation topic with adjustment easier, when a Teaching Agent is
\* configured; when none is, it invokes nothing and replies that the
\* Teaching Agent is not available.
C5_FeedbackLoop ==
    (lastCall.op = "route" /\ lastCall.intent = "feedback_loop") =>
        /\ C5_Common
        /\ lastCall.pre.knowledge_gaps # <<>> =>
             IF teaching_agent
             THEN C5_InvokedOnce
             ELSE /\ lastCall.teach_calls = <<>>
                  /\ lastCall.reply = "Teaching Agent not available."

\* a feedback_loop call on a session with a recorded gap re-taught it
C5_Witness ==
    /\ lastCall.op = "route"
    /\ lastCall.intent = "feedback_loop"
    /\ lastCall.pre.knowledge_gaps # <<>>
    /\ teaching_agent
    /\ lastCall.reply = "lesson"
    /\ session.state = "teaching"
    /\ session.teaching_output.topic.remediation = session.knowledge_gaps[1]

\* C6: the Loop Manager validates no transition: initialize_session,
\* transition_to_teaching, transition_to_assessment and
\* transition_to_analysis leave current_state at teaching, teaching,
\* assessment and analysis, from every state and in every call order, and
\* each of them can be called in every state.
C6_NoValidation ==
    /\ lmCall.op \in {"initialize_session", "transition_to_teaching"} =>
         lm.current_state = "teaching" /\ ~lmCall.raised
    /\ lmCall.op = "transition_to_assessment" =>
         lm.current_state = "assessment" /\ ~lmCall.raised
    /\ lmCall.op = "transition_to_analysis" =>
         lm.current_state = "analysis" /\ ~lmCall.raised
    /\ \A d \in StudentData : ENABLED initialize_session(d)
    /\ \A r \in LessonRequests : ENABLED transition_to_teaching(r)
    /\ \A d \in TeachingData : ENABLED transition_to_assessment(d)
    /\ \A d \in AssessmentData : ENABLED transition_to_analysis(d)

\* the assessment phase was entered straight from the feedback state
C6_Witness ==
    /\ lmCall.op = "transition_to_assessment"
    /\ lmCall.from = "feedback"
    /\ lm.current_state = "assessment"

\* C7 as stated: process_feedback_loop returns a feedback package with
\* identified_gaps, recommended_topics and a difficulty_adjustment among
\* foundational, intermediate and advanced, and leaves the state feedback,
\* for every assessment payload, plain integer error counts included.
C7_FeedbackPackage ==
    lmCall.op = "process_feedback_loop" =>
        /\ ~lmCall.raised
        /\ {"identified_gaps", "recommended_topics"} \subseteq DOMAIN lmCall.ret
        /\ lmCall.ret.difficulty_adjustment \in {"foundational", "intermediate", "advanced"}
        /\ lm.current_state = "feedback"

\* whether a session summary shows a payload
Reflects(summary, payload) ==
    payload \in {summary.student_profile, summary.teaching_output, summary.assessment_report}

\* the fields of the object a transition_to_* call may not touch, besides
\* the state and the named payload field
SameProfileAndLog(m, n) ==
    /\ n.student_profile = m.student_profile
    /\ n.conversation_history = m.conversation_history

\* C8 as stated: each of the three transition_to_* calls stores its input
\* payload, so that get_session_summary shows it, sets its target state and
\* changes no other field.
C8_Original ==
    [][ /\ lmCall'.op = "transition_to_teaching" =>
             /\ lm'.current_state = "teaching"
             /\ Reflects(get_session_summary(lm'), lmCall'.arg)
             /\ SameProfileAndLog(lm, lm')
             /\ lm'.assessment_report = lm.assessment_report
        /\ lmCall'.op = "transition_to_assessment" =>
             /\ lm'.current_state = "assessment"
             /\ get_session_summary(lm').teaching_output = lmCall'.arg
             /\ SameProfileAndLog(lm, lm')
             /\ lm'.assessment_report = lm.assessment_report
        /\ lmCall'.op = "transition_to_analysis" =>
             /\ lm'.current_state = "analysis"
             /\ get_session_summary(lm').assessment_report = lmCall'.arg
             /\ SameProfileAndLog(lm, lm')
             /\ lm'.teaching_output = lm.teaching_output
      ]_vars

\* C8, amended: transition_to_assessment stores teaching_data as the
\* teaching output and transition_to_analysis stores assessment_data as the
\* assessment report, so that get_session_summary shows them, and each sets
\* its target state; transition_to_teaching only sets the state to teaching:
\* topic and level come back in the returned envelope and are stored
\* nowhere.  None of the three changes any other field.
C8_TransitionPayloads ==
    [][ /\ lmCall'.op = "transition_to_teaching" =>
             /\ lm' = [lm EXCEPT !.current_state = "teaching"]
             /\ ~Reflects(get_session_summary(lm'), lmCall'.arg)
             /\ lmCall'.ret.topic = lmCall'.arg.topic
             /\ lmCall'.ret.level = lmCall'.arg.level
        /\ lmCall'.op = "transition_to_assessment" =>
             /\ lm'.current_state = "assessment"
             /\ get_session_summary(lm').teaching_output = lmCall'.arg
             /\ SameProfileAndLog(lm, lm')
             /\ lm'.assessment_report = lm.assessment_report
        /\ lmCall'.op = "transition_to_analysis" =>
             /\ lm'.current_state = "analysis"
             /\ get_session_summary(lm').assessment_report = lmCall'.arg
             /\ SameProfileAndLog(lm, lm')
             /\ lm'.teaching_output = lm.teaching_output
      ]_vars

\* transition_to_teaching("calculus", ...) was called on a session that
\* holds a teaching output, an assessment report and a profile, and the
\* summary still shows those
C8_Witness ==
    /\ lmCall.op = "transition_to_teaching"
    /\ lmCall.arg.topic = "calculus"
    /\ lm.current_state = "teaching"
    /\ get_session_summary(lm).teaching_output \in TeachingData
    /\ get_session_summary(lm).assessment_report \in AssessmentData
    /\ get_session_summary(lm).student_profile \in StudentData

\* C9: the values of _create_marking_scheme(type, T) sum to T for every
\* type and every T >= 0; short_answer gives T div 2 to correct_working and
\* long_answer gives T div 3 to each of understanding and working.
C9_SchemeSums ==
    msOut.done =>
        /\ SumValues(msOut.scheme) = msIn.total_marks
        /\ msIn.question_type = "short_answer" =>
             msOut.scheme.correct_working = msIn.total_marks \div 2
        /\ msIn.question_type = "long_answer" =>
             /\ msOut.scheme.understanding = msIn.total_marks \div 3
             /\ msOut.scheme.working = msIn.total_marks \div 3

\* a long answer of 7 marks was split 2 + 2 + 3
C9_Witness ==
    /\ msOut.done
    /\ msIn.question_type = "long_answer"
    /\ msIn.total_marks = 7
    /\ msOut.scheme.final_answer = 3

RECURSIVE SumMarks(_)
SumMarks(questions) ==
    IF questions = <<>> THEN 0
    ELSE (IF "marks_total" \in DOMAIN Head(questions)
          THEN Head(questions).marks_total
          ELSE MarksOf(Head(questions)))
         + SumMarks(Tail(questions))

\* C10 as stated: generate_assessment returns exactly N questions and a
\* total_marks equal to the sum of their marks, for every N >= 0, every
\* difficulty and every question_types list (rule-based), and whenever every
\* question comes from the LLM or from the placeholder fallback
\* (lesson-based).
C10_GeneratesAll ==
    (gaOut.done /\ \A i \in 1..Len(gaIn.draws) : gaIn.draws[i].reply # "nonobject") =>
        /\ ~gaOut.raised
        /\ Len(gaOut.questions) = gaIn.num_questions
        /\ gaOut.total_marks = SumMarks(gaOut.questions)

\* C11 as stated: for every question of a rule-based assessment and every
\* answer text, the evaluation returned for that question's id and type has
\* marks_obtained no greater than the question's marks_total.
C11_ScoreWithinQuestionTotal ==
    (evOut.done /\ gaIn.variant = "rule") =>
        evOut.marks_obtained <= gaOut.questions[evOut.question_id].marks_total

\* C12 as stated: submitting every question's own correct_answer to the
\* lesson-based evaluate_student_response gives total_score equal to the
\* assessment's total_marks, percentage 100.0 and the top DSE level, for
\* every question type and whether or not the LLM is reachable.
C12_PerfectAnswersScoreFull ==
    (evOut.done /\ gaIn.variant = "lesson" /\ gaOut.total_marks > 0) =>
        /\ ~evOut.raised
        /\ evOut.marks_obtained = gaOut.total_marks
        /\ evOut.percentage.num = 100 * evOut.percentage.den
        /\ evOut.dse_level = "Level 5**"

\* the tier of the 6-tier ladder that holds obtained/total*100, total > 0
Band(obtained, total) ==
    IF 100 * obtained >= 90 * total THEN "Level 5**"
    ELSE IF 100 * obtained >= 80 * total THEN "Level 5*"
    ELSE IF 100 * obtained >= 70 * total THEN "Level 5"
    ELSE IF 100 * obtained >= 60 * total THEN "Level 4"
    ELSE IF 100 * obtained >= 50 * total THEN "Level 3"
    ELSE "Below Level 3"

\* C13: _assess_level(obtained, total) is Not assessed whenever total is 0,
\* for any obtained, and otherwise the tier of obtained/total*100 on the
\* ladder with inclusive lower bounds 90, 80, 70, 60 and 50.
C13_AssessLevel ==
    alOut # NoLevel =>
        /\ alIn.marks_total = 0 => alOut = "Not assessed"
        /\ alIn.marks_total # 0 => alOut = Band(alIn.marks_obtained, alIn.marks_total)

\* 7 marks of 10 are exactly on the lower bound of Level 5
C13_Witness ==
    /\ alIn = [marks_obtained |-> 7, marks_total |-> 10]
    /\ alOut = "Level 5"

\* the text holds a JSON object: some part of it parses to one
ContainsObject(text) ==
    \E i \in 1..Len(text), j \in 1..Len(text) :
        /\ i <= j
        /\ json_loads(SubSeq(text, i, j)).ok
        /\ json_loads(SubSeq(text, i, j)).value.kind = "object"

\* C14 as stated: _safe_json_parse returns the same structure for a JSON
\* object text and for that text between triple-backtick fences, with or
\* without a json tag and whether or not a newline follows the opening
\* fence, and it returns None for every text that holds no JSON object.
C14_FencesAndJunk ==
    jpOut.done =>
        /\ ( /\ jpIn.prefix \in OpeningFences
             /\ jpIn.suffix \in ClosingFences
             /\ json_loads(jpIn.body).ok
             /\ json_loads(jpIn.body).value.kind = "object" )
           => ( /\ jpOut.value = _safe_json_parse(jpIn.body)
                /\ jpOut.value = json_loads(jpIn.body).value )
        /\ ~ContainsObject(TextOf(jpIn)) => jpOut.value = NoValue

\* no messages.create call was made on any client by the last operation
NoModelCall ==
    /\ ag.teaching_calls = agCall.pre.teaching_calls
    /\ ag.assessment_calls = agCall.pre.assessment_calls
    /\ ag.orchestrator_calls = agCall.pre.orchestrator_calls

\* C15: an agent without an API key makes no model call and does not raise:
\* generate_lesson and evaluate return a record whose llm_response has
\* status error and append that record to the agent's history, and chat
\* returns the fixed no-API-key reply without invoking either agent.
C15_NoKeyDegrades ==
    /\ (agCall.op = "generate_lesson" /\ ~agCall.pre.teaching_client) =>
         /\ agCall.ret.llm_response.status = "error"
         /\ ag.session_lessons = Append(agCall.pre.session_lessons, agCall.ret)
         /\ ag.assessment_history = agCall.pre.assessment_history
         /\ NoModelCall
    /\ (agCall.op = "evaluate" /\ ~agCall.pre.assessment_client) =>
         /\ agCall.ret.llm_response.status = "error"
         /\ ag.assessment_history = Append(agCall.pre.assessment_history, agCall.ret)
         /\ ag.session_lessons = agCall.pre.session_lessons
         /\ NoModelCall
    /\ (agCall.op = "chat" /\ ~agCall.pre.orchestrator_client) =>
         /\ agCall.ret = [reply |-> NoKeyReply, agent_used |-> "error"]
         /\ agCall.invoked = {}
         /\ ag.session_lessons = agCall.pre.session_lessons
         /\ ag.assessment_history = agCall.pre.assessment_history
         /\ NoModelCall
    /\ ~ag.teaching_client => ag.teaching_calls = 0
    /\ ~ag.assessment_client => ag.assessment_calls = 0
    /\ ~ag.orchestrator_client => ag.orchestrator_calls = 0

\* with no key at all, a second lesson was generated and both error records
\* are in the history
C15_Witness ==
    /\ ~ag.teaching_client /\ ~ag.assessment_client /\ ~ag.orchestrator_client
    /\ agCall.op = "generate_lesson"
    /\ Len(ag.session_lessons) = 2
    /\ ag.session_lessons[2].llm_response = NoKeyResponse("teaching")

\* C16 as stated: when the decision's action is direct, or anything but
\* teach and assess, chat returns the decision's reply verbatim if it is
\* non-empty and the generic fallback when it is empty or missing;
\* agent_used is orchestrator and neither specialist agent is invoked.
C16_DirectReply ==
    ( /\ agCall.op = "chat"
      /\ agCall.pre.orchestrator_client
      /\ agCall.decision.action \notin {"teach", "assess"} ) =>
        /\ agCall.ret.agent_used = "orchestrator"
        /\ agCall.invoked = {}
        /\ ag.session_lessons = agCall.pre.session_lessons
        /\ ag.assessment_history = agCall.pre.assessment_history
        /\ agCall.decision.reply \notin {Missing, ""} =>
             agCall.ret.reply = agCall.decision.reply
        /\ agCall.decision.reply \in {Missing, ""} =>
             agCall.ret.reply = FallbackReply

\* C17 as stated: for any list of n format requests and any completion
\* order of the workers, never more than min(n, 6) of them running at a
\* time, the endpoint responds (it does not raise), with exactly n results,
\* and result i has original equal to request i's raw_text.
C17_FormatQuestionsOrder ==
    /\ fq.phase # "raised"
    /\ Cardinality(Running) <= Min2(Len(fq.requests), PoolLimit)
    /\ fq.phase = "responded" =>
          /\ Len(fq.response) = Len(fq.requests)
          /\ \A i \in DOMAIN fq.requests :
                fq.response[i].original = fq.requests[i]

\* C18: when parse_file returns K chunks, every chunk has total_chunks = K
\* and the chunk_index values are 0..K-1 in list order.
C18_ChunkNumbering ==
    (pfOut.done /\ ~pfOut.raised) =>
        \A j \in DOMAIN pfOut.chunks :
            /\ pfOut.chunks[j].metadata.total_chunks = Len(pfOut.chunks)
            /\ pfOut.chunks[j].metadata.chunk_index = j - 1

\* a file of three pieces gave two chunks: the blank piece gave none
C18_Witness ==
    /\ pfOut.done /\ ~pfOut.raised
    /\ Len(pfIn.file.pieces) = 3
    /\ Len(pfOut.chunks) = 2

\* the chunks of a list that come from the file at path
FromFile(chunks, path) ==
    LET F[i \in 0..Len(chunks)] ==
            IF i = 0 THEN <<>>
            ELSE IF chunks[i].metadata.source_file = path
                 THEN Append(F[i - 1], chunks[i])
                 ELSE F[i - 1]
    IN F[Len(chunks)]

\* what one file of a directory is to contribute: its chunks when it has a
\* supported extension and parses, nothing otherwise
Contribution(parser, file) ==
    IF file.ext \notin {".pdf", ".txt", ".md"} THEN <<>>
    ELSE LET out == parse_file(parser, file)
         IN IF out.raised THEN <<>> ELSE out.value

\* C19: parse_directory on an existing directory does not raise and returns
\* the chunks in sorted path order, each supported file that parses
\* contributing exactly its chunks and every other file none; a batch
\* formatting request of at least one item does not raise, and every item
\* whose formatting fails (each one does: the typesetting call returns a
\* string, which _fmt subscripts) gets its raw text, at its own place.
C19_BatchIsolation ==
    /\ (pdOut.done /\ pdIn.directory.exists) =>
          /\ ~pdOut.raised
          /\ \A i, j \in DOMAIN pdOut.chunks :
                i <= j => pdOut.chunks[i].metadata.source_file
                            <= pdOut.chunks[j].metadata.source_file
          /\ \A n \in DOMAIN pdIn.directory.listing :
                LET file == pdIn.directory.listing[n]
                IN FromFile(pdOut.chunks, file.path)
                      = Contribution(pdIn.parser, file)
          /\ \A j \in DOMAIN pdOut.chunks :
                \E n \in DOMAIN pdIn.directory.listing :
                   pdIn.directory.listing[n].path
                      = pdOut.chunks[j].metadata.source_file
    /\ fq.phase = "raised" => fq.requests = <<>>
    /\ \A i \in DOMAIN fq.future :
          fq.future[i] = "collected" =>
             fq.results[i] = [raised |-> FALSE, original |-> fq.requests[i],
                              formatted |-> fq.requests[i], answer |-> ""]
    /\ fq.phase = "responded" => fq.response = fq.results

\* a PDF that does not open is listed after a paper that sorts after it:
\* the paper's two chunks are all that is returned
C19_Witness ==
    /\ pdOut.done /\ ~pdOut.raised
    /\ Len(pdIn.directory.listing) = 2
    /\ pdIn.directory.listing[1].path = 2
    /\ pdIn.directory.listing[1].content = "text"
    /\ pdIn.directory.listing[1].ext = ".pdf"
    /\ pdIn.directory.listing[2].content = "unreadable"
    /\ pdIn.parser._pymupdf_available
    /\ Len(pdOut.chunks) = 2

\* C20: after reset(), whatever the collection held, and until something is
\* ingested, count() is 0 and retrieve returns an empty list for every k,
\* without a similarity query and without raising; once chunks are ingested
\* again, an unfiltered retrieve with k >= 1 returns results.
C20_ResetEmpties ==
    /\ rrCall.clean => rr.store = {}
    /\ (rrCall.clean /\ rrCall.op = "count") => rrCall.n = 0
    /\ (rrCall.clean /\ rrCall.op = "retrieve") =>
          /\ rrCall.value = <<>>
          /\ ~rrCall.raised
          /\ rr.queries = rrCall.pre.queries
    /\ ( /\ rrCall.reset_seen /\ ~rrCall.clean
         /\ rrCall.op = "retrieve" /\ rrCall.k >= 1 /\ ~rrCall.where ) =>
          /\ ~rrCall.raised
          /\ rrCall.value # <<>>

\* a collection of two documents was reset, and retrieve with k = 2 then
\* returned nothing
C20_Witness ==
    /\ rrCall.clean
    /\ rrCall.op = "retrieve"
    /\ rrCall.k = 2
    /\ Cardinality(rrCall.held) = 2
    /\ rrCall.value = <<>>

\* C22: a route() call classified assess ends in state assessing with
\* loop_count unchanged, whatever the Assessment Agent did and even when the
\* reply announces the feedback loop: its only transition is the one to
\* assessing, it invokes no Teaching Agent and it logs neither a
\* feedback_loop_triggered nor a teaching_completed event.
C22_AssessEndsAssessing ==
    (lastCall.op = "route" /\ lastCall.intent = "assess") =>
        /\ session.state = "assessing"
        /\ session.loop_count = lastCall.pre.loop_count
        /\ lastCall.path = <<"assessing">>
        /\ lastCall.teach_calls = <<>>
        /\ \A i \in 1..Len(NewEvents) :
             NewEvents[i].event \in {"intent_classified", "assessment_completed"}

\* an assessment after a lesson found gaps and announced the feedback loop
C22_Witness ==
    /\ lastCall.op = "route"
    /\ lastCall.intent = "assess"
    /\ lastCall.pre.loop_count > 0
    /\ session.knowledge_gaps # <<>>
    /\ lastCall.reply = "evaluation, feedback loop announced"
    /\ session.state = "assessing"

C30_TeachNotRolledBack ==
    (lastCall.op = "route" /\ lastCall.intent = "teach") =>
        /\ lastCall.path = <<"teaching">>
        /\ session.state = "teaching"
        /\ session.loop_count = lastCall.pre.loop_count + 1
        /\ Len(lastCall.teach_calls) = (IF teaching_agent THEN 1 ELSE 0)
        /\ \A i \in 1..Len(lastCall.teach_calls) :
             lastCall.teach_calls[i].loop_count = lastCall.pre.loop_count + 1
        /\ ~teaching_agent =>
             /\ lastCall.reply = "Teaching Agent not available."
             /\ lastCall.agent_used = "error"
        /\ (teaching_agent /\ lastCall.teach_calls[1].outcome = "raise") =>
             /\ lastCall.reply = "Teaching Agent error"
             /\ lastCall.agent_used = "teaching"
        /\ (~teaching_agent \/ lastCall.teach_calls[1].outcome = "raise") =>
             /\ \A i \in 1..Len(NewEvents) : NewEvents[i].event # "teaching_completed"
             /\ session.teaching_output = lastCall.pre.teaching_output

\* the agent raised on the second lesson request: the session is in teaching
\* with loop_count 2 and still holds the first lesson
C30_Witness ==
    /\ lastCall.op = "route"
    /\ lastCall.intent = "teach"
    /\ teaching_agent
    /\ lastCall.teach_calls[1].outcome = "raise"
    /\ lastCall.pre.teaching_output.present
    /\ session.teaching_output = lastCall.pre.teaching_output
    /\ session.state = "teaching"
    /\ session.loop_count = 2
    /\ lastCall.reply = "Teaching Agent error"

\* C28: without a Bedrock client no sequence of route() calls brings the
\* session to reviewing or completed: no call is classified feedback_loop,
\* the state stays within idle, teaching and assessing, no transition
\* targets another state, no feedback_loop_triggered event is logged and no
\* lesson is requested on a remediation topic.
C28_FallbackNeverReviews ==
    ~client =>
        /\ session.state \in {"idle", "teaching", "assessing"}
        /\ lastCall.intent \in {"none", "teach", "assess", "direct"}
        /\ \A i \in 1..Len(translog) : translog[i] \in {"teaching", "assessing"}
        /\ \A i \in 1..Len(session.history) :
             /\ session.history[i].event # "feedback_loop_triggered"
             /\ session.history[i].state \in {"idle", "teaching", "assessing"}
        /\ \A i \in 1..Len(lastCall.teach_calls) :
             /\ lastCall.teach_calls[i].topic.remediation = NoGap
             /\ lastCall.teach_calls[i].difficulty_adjustment = NoAdj

\* without a client, gaps were recorded by assessments and the third call
\* asked for a lesson: it is a plain lesson, not a remediation
C28_Witness ==
    /\ ~client
    /\ calls = MaxRouteCalls
    /\ lastCall.intent = "teach"
    /\ lastCall.pre.knowledge_gaps # <<>>
    /\ lastCall.pre.state = "assessing"
    /\ Len(lastCall.teach_calls) = 1
    /\ lastCall.teach_calls[1].topic.remediation = NoGap
    /\ session.state = "teaching"

\* C29: no route() call removes an entry from session.knowledge_gaps; a
\* call classified feedback_loop on a session with a recorded gap goes
\* through reviewing back to teaching; a session is in completed only with
\* no gap recorded, and from the moment a gap is recorded it is never in
\* completed again.
C29_GapsOnlyGrow ==
    /\ [](lastCall.op = "route" =>
            /\ Range(lastCall.pre.knowledge_gaps) \subseteq Range(session.knowledge_gaps)
            /\ (lastCall.intent = "feedback_loop" /\ lastCall.pre.knowledge_gaps # <<>>) =>
                 /\ lastCall.path = <<"reviewing", "teaching">>
                 /\ session.state = "teaching"
                 /\ session.loop_count = lastCall.pre.loop_count + 1
            /\ session.state = "completed" => session.knowledge_gaps = <<>>)
    /\ [](session.knowledge_gaps # <<>> => [](session.state # "completed"))

\* a session that had completed, then recorded a gap, was sent back to
\* teaching by its next feedback_loop call
C29_Witness ==
    /\ lastCall.op = "route"
    /\ lastCall.intent = "feedback_loop"
    /\ \E i \in 1..Len(session.history) : session.history[i].state = "completed"
    /\ lastCall.pre.knowledge_gaps # <<>>
    /\ lastCall.pre.state = "assessing"
    /\ session.state = "teaching"
    /\ session.knowledge_gaps = lastCall.pre.knowledge_gaps

\* the gaps_found lists of the assessments in a history, in order
RECURSIVE GapsAsRecorded(_)
GapsAsRecorded(history) ==
    IF history = <<>> THEN <<>>
    ELSE (IF Head(history).event = "assessment_completed"
          THEN Head(history).data ELSE <<>>) \o GapsAsRecorded(Tail(history))

\* the gap a feedback_loop call focused on
FocusGap == (CHOOSE e \in Range(NewEvents) : e.event = "feedback_loop_triggered").data

\* C26: a feedback_loop call on a session with recorded gaps remediates the
\* first gap the session recorded, whatever later assessments merged in.
C26_FirstRecordedGap ==
    (lastCall.op = "route" /\ lastCall.intent = "feedback_loop"
        /\ lastCall.pre.knowledge_gaps # <<>>) =>
        /\ FocusGap = Head(GapsAsRecorded(lastCall.pre.history))
        /\ \A i \in 1..Len(lastCall.teach_calls) :
             lastCall.teach_calls[i].topic.remediation =
                 Head(GapsAsRecorded(lastCall.pre.history))

\* the logged calls of one operation that referenced an id its store did
\* not hold
UnknownCalls(op) == {c \in Range(lkCall) : c.op = op /\ c.id \notin c.held}

\* C21: a lookup by an unknown identifier gives an explicit error outcome
\* and changes no store: evaluate_student_response raises its not-found
\* ValueError and adds no report, export_lesson returns None, and
\* get_session_report returns the error record and creates no session.  A
\* known identifier never gives one of these outcomes.
C21_UnknownIdentifier ==
    /\ \A c \in UnknownCalls("evaluate_student_response") :
         c.outcome = "ValueError: not found" /\ ~c.changed
    /\ \A c \in UnknownCalls("export_lesson") :
         c.outcome = "None" /\ ~c.changed
    /\ \A c \in UnknownCalls("get_session_report") :
         c.outcome = "error: Session not found" /\ ~c.changed
    /\ \A c \in Range(lkCall) :
         c.outcome \in {"ValueError: not found", "None", "error: Session not found"} =>
             c.id \notin c.held

\* with an assessment, a lesson and a session stored, each of the three
\* lookups was made with another identifier, and no report was ever added
C21_Witness ==
    /\ lk.report_history = <<>>
    /\ \E c \in UnknownCalls("evaluate_student_response") : c.held # {}
    /\ \E c \in UnknownCalls("export_lesson") : c.held # {}
    /\ \E c \in UnknownCalls("get_session_report") : c.held # {}

\* C24: no two requests that are in flight together have read or written a
\* common mutable object.
C24_RequestsShareNothing ==
    \A r1, r2 \in RequestIds :
        (r1 # r2 /\ InFlight(r1) /\ InFlight(r2)) =>
            rq[r1].touched \cap rq[r2].touched = {}

\* C25: with the default window of 1000 and overlap of 150 the sliding
\* window returns on every text: every window starts strictly behind the
\* start of the one before it, the windows leave no character between them
\* uncovered, and when the call has returned every character of the text
\* lies in a window.
C25_SlidingWindowTerminates ==
    /\ [](/\ sw.advanced
          /\ sw.start > sw.last_start
          /\ sw.covered = sw.last_end
          /\ sw.pc = "returned" => (sw.covered = sw.text_len /\ sw.start = sw.text_len))
    /\ <>(sw.pc = "returned")

\* a text longer than one window has been returned in three windows, the
\* first two cut at the earliest paragraph break the code accepts
C25_Witness ==
    /\ sw.pc = "returned"
    /\ sw.text_len > max_size
    /\ sw.windows = 3
    /\ sw.chunks = 3
    /\ sw.last_start = 2 * (max_size \div 2 + 1 - overlap)
    /\ sw.last_end = sw.text_len
    /\ sw.covered = sw.text_len

\* C27: the chunk ids of one pipeline run are pairwise distinct, and after a
\* run under --reset the collection counts as many chunks as ingest
\* returned
C27_IdsDistinctAcrossFiles ==
    /\ Distinct(chunk_ids(ig.all_chunks))
    /\ (ig.pc = "step 5" /\ ig.reset) => ig.stats = ig.num_ingested

\* a run under --reset that parsed chunks of two files and printed its
\* summary
C27_TwoFilesIngested ==
    /\ ig.pc = "step 5" /\ ig.reset
    /\ \E a, b \in DOMAIN ig.all_chunks :
          ig.all_chunks[a].metadata.source_file # ig.all_chunks[b].metadata.source_file

====
